---- MODULE Spec2Model ----
(***************************************************************************)
(* Model of the interactive session engine of meshcore-cli                 *)
(* (src/src/meshcore_cli/meshcore_cli.py): the prompt loop of              *)
(* interactive_loop, the acknowledgment wait of msg_ack, the chained       *)
(* command dispatcher next_cmd / process_cmds and the inbound message      *)
(* handler process_event_message.                                          *)
(*                                                                         *)
(* Text is modelled as sequences of one-character strings, so that the     *)
(* prefix tests, slices, splits and number conversions of the code are     *)
(* computed the way Python computes them.                                  *)
(***************************************************************************)
EXTENDS Integers, Sequences, FiniteSets, TLC

\* ------------------------------------------------------------------------
\* Bounds of the model
\* ------------------------------------------------------------------------
\* channel indexes 0..MaxChan appear in `to ch<N>` lines and inbound messages
MaxChan == 1
\* acknowledgment codes 1..NumCodes the device hands out / publishes
NumCodes == 2
\* timeout overrides 0..MaxOverride (seconds) typed in `set timeout <v>`
MaxOverride == 1

\* interactive loops that may be open inside one another
MaxDepth == 2
\* messages that the device may hold when the interactive mode starts
MaxQueued == 2

\* ------------------------------------------------------------------------
\* Python string primitives
\* ------------------------------------------------------------------------
\* str.startswith
StartsWith(s, p) == Len(s) >= Len(p) /\ SubSeq(s, 1, Len(p)) = p

\* the slice s[i:]
From(s, i) == SubSeq(s, i + 1, Len(s))

DigitChars == <<"0", "1", "2", "3", "4", "5", "6", "7", "8", "9">>

IsDigit(c) == \E d \in 1..10 : DigitChars[d] = c

DigitVal(c) == (CHOOSE d \in 1..10 : DigitChars[d] = c) - 1

IsDigits(s) == Len(s) > 0 /\ \A i \in 1..Len(s) : IsDigit(s[i])

RECURSIVE DigitsVal(_)
DigitsVal(s) ==
    IF s = <<>> THEN 0
    ELSE 10 * DigitsVal(SubSeq(s, 1, Len(s) - 1)) + DigitVal(s[Len(s)])

\* int(s) / float(s) succeed on an optionally signed run of digits and raise
\* ValueError on the empty string and on any other text of the model
NumOk(s) ==
    \/ IsDigits(s)
    \/ Len(s) > 1 /\ s[1] \in {"-", "+"} /\ IsDigits(Tail(s))

NumVal(s) ==
    IF s[1] = "-" THEN 0 - DigitsVal(Tail(s))
    ELSE IF s[1] = "+" THEN DigitsVal(Tail(s))
    ELSE DigitsVal(s)

RECURSIVE NatStr(_)
NatStr(n) ==
    IF n < 10 THEN <<DigitChars[n + 1]>>
    ELSE NatStr(n \div 10) \o <<DigitChars[(n % 10) + 1]>>

\* str(n)
Str(n) == IF n < 0 THEN <<"-">> \o NatStr(0 - n) ELSE NatStr(n)

\* shlex.split: whitespace separated tokens, quotes group and may be empty;
\* an unclosed quote raises ValueError (ok = FALSE)
RECURSIVE ShlexScan(_, _, _, _, _)
ShlexScan(s, cur, inTok, q, acc) ==
    IF s = <<>> THEN
        IF q # "" THEN [ok |-> FALSE, toks |-> <<>>]
        ELSE [ok |-> TRUE, toks |-> IF inTok THEN Append(acc, cur) ELSE acc]
    ELSE LET c == Head(s)
             r == Tail(s)
         IN IF q # "" THEN
                IF c = q THEN ShlexScan(r, cur, TRUE, "", acc)
                ELSE ShlexScan(r, Append(cur, c), TRUE, q, acc)
            ELSE IF c \in {"\"", "'"} THEN ShlexScan(r, cur, TRUE, c, acc)
            ELSE IF c = " " THEN
                ShlexScan(r, <<>>, FALSE, "", IF inTok THEN Append(acc, cur) ELSE acc)
            ELSE ShlexScan(r, Append(cur, c), TRUE, "", acc)

ShlexSplit(s) == ShlexScan(s, <<>>, FALSE, "", <<>>)

\* str.split(" "): every single space separates, empty pieces are kept
RECURSIVE SplitScan(_, _, _)
SplitScan(s, cur, acc) ==
    IF s = <<>> THEN Append(acc, cur)
    ELSE IF Head(s) = " " THEN SplitScan(Tail(s), <<>>, Append(acc, cur))
    ELSE SplitScan(Tail(s), Append(cur, Head(s)), acc)

SplitSp(s) == SplitScan(s, <<>>, <<>>)

\* index of the first space of s, 0 when there is none
FirstSp(s) ==
    IF \E i \in 1..Len(s) : s[i] = " "
    THEN CHOOSE i \in 1..Len(s) : s[i] = " " /\ \A j \in 1..(i - 1) : s[j] # " "
    ELSE 0

\* str.split(" ", 1)
Split1(s) ==
    IF FirstSp(s) = 0 THEN <<s>>
    ELSE <<SubSeq(s, 1, FirstSp(s) - 1), From(s, FirstSp(s))>>

\* ------------------------------------------------------------------------
\* Vocabulary: the literal strings of the code and the texts typed in the model
\* ------------------------------------------------------------------------
\* l.639: "to"
W_to == <<"t", "o">>

\* l.614: "to "
W_toSp == <<"t", "o", " ">>

\* l.645: "quit"
W_quit == <<"q", "u", "i", "t">>

\* l.645: "q"
W_q == <<"q">>

\* l.620: "public"
W_public == <<"p", "u", "b", "l", "i", "c">>

\* l.649: "public "
W_publicSp == <<"p", "u", "b", "l", "i", "c", " ">>

\* l.622: "ch"
W_ch == <<"c", "h">>

\* l.1345: case "chan"
W_chan == <<"c", "h", "a", "n">>

\* l.625: ".."
W_dotdot == <<".", ".">>

\* l.627: "~"
W_tilde == <<"~">>

\* l.627: "/"
W_slash == <<"/">>

\* l.655: "!"
W_bang == <<"!">>
\* the marker of a raw device-CLI string; no branch of l.606-776 tests for it
W_at == <<"@">>

\* l.760: "send"
W_send == <<"s", "e", "n", "d">>

\* l.894: case "set"
W_set == <<"s", "e", "t">>

\* l.1102: case "get"
W_get == <<"g", "e", "t">>

\* l.685: "set timeout "
W_setTimeoutSp == <<"s", "e", "t", " ", "t", "i", "m", "e", "o", "u", "t", " ">>

\* l.689: "get timeout"
W_getTimeout == <<"g", "e", "t", " ", "t", "i", "m", "e", "o", "u", "t">>

\* l.1327: case "msg"
W_msg == <<"m", "s", "g">>

\* l.1363: case "cmd"
W_cmd == <<"c", "m", "d">>

\* l.1381: case "login"
W_login == <<"l", "o", "g", "i", "n">>

\* l.725-729: "login " prefix
W_loginSp == <<"l", "o", "g", "i", "n", " ">>

\* l.1434: case "req_status"
W_req_status == <<"r", "e", "q", "_", "s", "t", "a", "t", "u", "s">>

\* l.1434: case "rs"
W_rs == <<"r", "s">>

\* l.1454: case "req_telemetry"
W_req_telemetry == <<"r", "e", "q", "_", "t", "e", "l", "e", "m", "e", "t", "r", "y">>

\* l.1454: case "rt"
W_rt == <<"r", "t">>

\* l.920: case "color"
W_color == <<"c", "o", "l", "o", "r">>

\* l.916: case "classic_prompt"
W_classic_prompt == <<"c", "l", "a", "s", "s", "i", "c", "_", "p", "r", "o", "m", "p", "t">>

\* l.912: case "print_name"
W_print_name == <<"p", "r", "i", "n", "t", "_", "n", "a", "m", "e">>

\* l.940: case "json_msgs"
W_json_msgs == <<"j", "s", "o", "n", "_", "m", "s", "g", "s">>

\* l.913: cmds[2] == "on"
W_on == <<"o", "n">>

\* l.913: a value other than "on"
W_off == <<"o", "f", "f">>

\* l.770-771: a message text typed at the prompt
W_hi == <<"h", "i">>

\* l.725-732: a password typed after login
W_pw == <<"p", "w">>

\* l.618: a name no contact has
W_xyz == <<"x", "y", "z">>

\* l.623: a non-numeric token
W_x == <<"x">>

N_Bob == <<"B", "o", "b">>

N_Rep == <<"R", "e", "p">>

N_me == <<"m", "e">>

\* the lines that take the current contact as their only argument (l.672-681)
CtCmdLines ==
    {<<"s", "c">>,
     <<"s", "h", "a", "r", "e", "_", "c", "o", "n", "t", "a", "c", "t">>,
     <<"e", "c">>,
     <<"e", "x", "p", "o", "r", "t", "_", "c", "o", "n", "t", "a", "c", "t">>,
     <<"u", "c">>,
     <<"u", "p", "l", "o", "a", "d", "_", "c", "o", "n", "t", "a", "c", "t">>,
     <<"r", "p">>,
     <<"r", "e", "s", "e", "t", "_", "p", "a", "t", "h">>,
     <<"c", "o", "n", "t", "a", "c", "t", "_", "i", "n", "f", "o">>,
     <<"c", "i">>,
     <<"r", "e", "q", "_", "s", "t", "a", "t", "u", "s">>,
     <<"r", "s">>,
     <<"r", "e", "q", "_", "t", "e", "l", "e", "m", "e", "t", "r", "y">>,
     <<"r", "t">>,
     <<"r", "e", "q", "_", "a", "c", "l">>,
     <<"p", "a", "t", "h">>,
     <<"l", "o", "g", "o", "u", "t">>}

\* the prefixes of lines that take the current contact and one parameter (l.725-729)
CtCmdArgPrefixes ==
    {<<"c", "m", "d", " ">>,
     <<"c", "p", " ">>,
     <<"c", "h", "a", "n", "g", "e", "_", "p", "a", "t", "h", " ">>,
     <<"c", "f", " ">>,
     <<"c", "h", "a", "n", "g", "e", "_", "f", "l", "a", "g", "s", " ">>,
     <<"r", "e", "q", "_", "b", "i", "n", "a", "r", "y", " ">>,
     <<"l", "o", "g", "i", "n", " ">>}

\* l.693: "get acl"
W_getAcl == <<"g", "e", "t", " ", "a", "c", "l">>

\* l.693: "get mma "
W_getMmaSp == <<"g", "e", "t", " ", "m", "m", "a", " ">>

\* l.695: "get telemetry"
W_getTelemetry == <<"g", "e", "t", " ", "t", "e", "l", "e", "m", "e", "t", "r", "y">>

\* l.695: "get status"
W_getStatus == <<"g", "e", "t", " ", "s", "t", "a", "t", "u", "s">>

\* l.705-706: "setperm "
W_setpermSp == <<"s", "e", "t", "p", "e", "r", "m", " ">>

\* l.705-706: "set perm "
W_setPermSp == <<"s", "e", "t", " ", "p", "e", "r", "m", " ">>

\* l.734-735: "req_mma "
W_req_mmaSp == <<"r", "e", "q", "_", "m", "m", "a", " ">>

\* l.734-735: "rm "
W_rmSp == <<"r", "m", " ">>

\* l.742: ":"
W_colon == <<":">>

\* l.746: "reset path"
W_resetPath == <<"r", "e", "s", "e", "t", " ", "p", "a", "t", "h">>

\* l.750: "list"
W_list == <<"l", "i", "s", "t">>

\* l.616: '"'
W_dquote == <<"\"">>

\* l.616: "'"
W_squote == <<"'">>

\* l.610: "$"
W_dollar == <<"$">>

\* l.667: "."
W_dot == <<".">>

\* l.650: " "
W_sp == <<" ">>

\* l.1573: case "flush_pending"
W_flush_pending == <<"f", "l", "u", "s", "h", "_", "p", "e", "n", "d", "i", "n", "g">>

\* l.1576: case "add_pending"
W_add_pending == <<"a", "d", "d", "_", "p", "e", "n", "d", "i", "n", "g">>

\* l.1777: case "remove_contact"
W_remove_contact ==
    <<"r", "e", "m", "o", "v", "e", "_", "c", "o", "n", "t", "a", "c", "t">>

\* l.1796: case "recv"
W_recv == <<"r", "e", "c", "v">>

\* l.1796: case "r"
W_r == <<"r">>

\* l.1880: case "wait_ack"
W_wait_ack == <<"w", "a", "i", "t", "_", "a", "c", "k">>

\* l.1880: case "wa"
W_wa == <<"w", "a">>

\* l.1893: case "msgs_subscribe"
W_msgs_subscribe ==
    <<"m", "s", "g", "s", "_", "s", "u", "b", "s", "c", "r", "i", "b", "e">>

\* l.1893: case "ms"
W_ms == <<"m", "s">>

\* l.1905: case "script"
W_script == <<"s", "c", "r", "i", "p", "t">>

\* l.829: case "clock"
W_clock == <<"c", "l", "o", "c", "k">>

\* l.830: cmds[1] == "sync"
W_sync == <<"s", "y", "n", "c">>

\* l.1415: case "logout"
W_logout == <<"l", "o", "g", "o", "u", "t">>

\* l.1518: case "req_acl"
W_req_acl == <<"r", "e", "q", "_", "a", "c", "l">>

\* l.1927: cmds[0][0] != '#'
W_hash == <<"#">>

\* l.1896: case "chat"
W_chat == <<"c", "h", "a", "t">>

\* l.1896: case "interactive"
W_interactive == <<"i", "n", "t", "e", "r", "a", "c", "t", "i", "v", "e">>

\* l.1896: case "im"
W_im == <<"i", "m">>

\* l.1899: case "chat_to"
W_chat_to == <<"c", "h", "a", "t", "_", "t", "o">>

\* l.1899: case "imto"
W_imto == <<"i", "m", "t", "o">>

\* l.1428: case "contact_timeout"
W_contact_timeout == <<"c", "o", "n", "t", "a", "c", "t", "_", "t", "i", "m", "e", "o", "u", "t">>

\* l.623: a negative channel number
W_minus1 == <<"-", "1">>

\* ------------------------------------------------------------------------
\* State
\* ------------------------------------------------------------------------
VARIABLES
    pc,            \* position of the session: "prompt" (awaiting an input line),
                   \* "cmds" (process_cmds about to run its next chained command),
                   \* "wait" (suspended in wait_for_event), "closed" (loop ended)
    why,           \* how the loop ended: "" while open, "quit", "eof",
                   \* "interrupt", or the name of the exception that ended it
    contact,       \* interactive_loop: the current target
    prev_contact,  \* interactive_loop: the previous-target slot
    last_ack,      \* interactive_loop: FALSE shows the unacknowledged marker
    last_node,     \* process_event_message.last_node (LastSender)
    last_msg,      \* the message last handed to process_event_message
    shown,         \* how many times that message has been displayed
    contacts,      \* mc.contacts: the keys of the registry, in insertion order
    ct,            \* the contact dictionaries, by public key
    pending,       \* mc.pending_contacts: the keys of the pending contacts
    color,         \* process_event_message.color
    classic,       \* interactive_loop.classic
    print_name,    \* interactive_loop.print_name
    json_output,   \* handle_message.json_output
    PS,            \* how many times handle_message is subscribed to direct
                   \* messages (0 while the global PS is None)
    CS,            \* the same for channel messages (the global CS)
    line,          \* the input line being handled (the last one read)
    cmds,          \* process_cmds: the chained commands still to run
    wait,          \* the wait_for_event of the line being handled, with its result
    ops,           \* the device operations issued for the line being handled
    out,           \* what was printed for the line being handled
    stack,         \* one frame per open interactive loop or running script:
                   \* what its caller (next_cmd inside process_cmds) resumes
                   \* when it returns, and the script lines still to run
    connected,     \* the link to the device is up
    device         \* the device as the start-up purge finds it: how many
                   \* messages it has queued, and whether it answers get_msg
                   \* with an error

vars == <<pc, why, contact, prev_contact, last_ack, last_node, last_msg, shown, contacts, ct, pending,
          color, classic, print_name, json_output, PS, CS, line, cmds, wait, ops, out,
          stack, connected, device>>

loopVars == <<contact, prev_contact, last_ack>>

cfgVars == <<color, classic, print_name, json_output, PS, CS>>

\* a subscription made whether or not there is one already
SubscribeAgain(n) == n + 1

\* subscribe_to_msgs l.260-264: handle_message is subscribed only while the
\* global is None
Subscribe(n) == IF n = 0 THEN 1 ELSE n

\* the subscriptions of handle_message that an inbound message reaches
Handlers(m) == IF m.type = "PRIV" THEN PS ELSE CS

regVars == <<contacts, ct, pending>>

envVars == <<stack, connected, device>>

rxVars == <<last_node, last_msg, shown>>

\* ------------------------------------------------------------------------
\* Targets: None (root), a contact dictionary, or a channel dictionary
\* ------------------------------------------------------------------------
NoneT == [kind |-> "none"]

Ct(k) == [kind |-> "contact", key |-> k]

Chan(name, n) == [kind |-> "chan", adv_name |-> name, chan_nb |-> n]

\* contact["type"]: 0 for the channel dictionaries built at l.621, l.624, l.159, l.162
TType(t) == IF t.kind = "contact" THEN ct[t.key].type ELSE 0

\* contact["adv_name"]
AdvName(t) == IF t.kind = "contact" THEN ct[t.key].adv_name ELSE t.adv_name

Keys == {"kB", "kR"}

\* the registry the device reports: a chat peer and a repeater, no override yet
InitCt ==
    [k \in Keys |->
        IF k = "kB" THEN [adv_name |-> N_Bob, type |-> 1, tset |-> FALSE, timeout |-> 0]
        ELSE [adv_name |-> N_Rep, type |-> 2, tset |-> FALSE, timeout |-> 0]]

\* mc.self_info["name"]
SelfName == N_me

\* the nodes that may advertise themselves while they are no contacts: what
\* their advertisement carries. One bears a name of its own, one the display
\* name of a contact of the registry, one a name that is also a token of `to`.
Adverts ==
    [k \in {"kP", "kQ", "kS"} |->
        IF k = "kP" THEN [adv_name |-> W_x, type |-> 1]
        ELSE IF k = "kQ" THEN [adv_name |-> N_Bob, type |-> 1]
        ELSE [adv_name |-> W_public, type |-> 1]]

\* a public key as it is typed
KeyText(k) == <<k>>

\* mc.get_contact_by_name: the first contact of the registry with that display
\* name, None when there is none
get_contact_by_name(name) ==
    IF \E i \in 1..Len(contacts) : ct[contacts[i]].adv_name = name
    THEN Ct(contacts[CHOOSE i \in 1..Len(contacts) :
                /\ ct[contacts[i]].adv_name = name
                /\ \A j \in 1..(i - 1) : ct[contacts[j]].adv_name # name])
    ELSE NoneT

\* mc.get_contact_by_key_prefix: the first contact whose key starts with the
\* prefix; message metadata of the model carries the whole key or "k?" (unknown)
get_contact_by_key_prefix(prefix) ==
    IF \E i \in 1..Len(contacts) : contacts[i] = prefix
    THEN Ct(prefix)
    ELSE NoneT

\* ------------------------------------------------------------------------
\* interactive_loop: which branch of the if / elif chain takes a line
\* ------------------------------------------------------------------------
Branch(l) ==
    IF l = <<>> THEN "blank"
    ELSE IF StartsWith(l, W_dollar) THEN "raw"
    ELSE IF StartsWith(l, W_toSp) THEN "to"
    ELSE IF l = W_to THEN "show_to"
    ELSE IF l = W_quit \/ l = W_q THEN "quit"
    ELSE IF StartsWith(l, W_publicSp) THEN "public"
    ELSE IF StartsWith(l, W_bang) THEN "reply"
    ELSE IF contact = NoneT \/ StartsWith(l, W_dot) THEN "passthrough"
    ELSE IF TType(contact) > 0 /\ l \in CtCmdLines THEN "ct_cmd"
    ELSE IF TType(contact) > 0 /\ StartsWith(l, W_setTimeoutSp) THEN "set_timeout"
    ELSE IF TType(contact) > 0 /\ l = W_getTimeout THEN "get_timeout"
    ELSE IF \/ TType(contact) = 4 /\ (l = W_getAcl \/ StartsWith(l, W_getMmaSp))
            \/ TType(contact) > 1 /\ (StartsWith(l, W_getTelemetry) \/ StartsWith(l, W_getStatus))
         THEN "get_req"
    ELSE IF TType(contact) = 4 /\ (StartsWith(l, W_setpermSp) \/ StartsWith(l, W_setPermSp))
         THEN "setperm"
    ELSE IF TType(contact) > 0 /\ \E p \in CtCmdArgPrefixes : StartsWith(l, p) THEN "ct_cmd_arg"
    ELSE IF TType(contact) = 4 /\ (StartsWith(l, W_req_mmaSp) \/ StartsWith(l, W_rmSp))
         THEN "req_mma"
    ELSE IF StartsWith(l, W_colon) THEN "colon"
    ELSE IF l = W_resetPath THEN "reset_path"
    ELSE IF l = W_list THEN "list"
    ELSE IF StartsWith(l, W_send) \/ StartsWith(l, W_dquote) THEN "send"
    ELSE IF TType(contact) = 0 THEN "chan_text"
    ELSE IF TType(contact) = 1 THEN "chat_text"
    ELSE IF TType(contact) \in {2, 3, 4} THEN "cmd_text"
    ELSE "none"

\* ------------------------------------------------------------------------
\* The device (external collaborator): results of commands and events
\* ------------------------------------------------------------------------
HexChars == <<"0", "1", "2", "3", "4", "5", "6", "7", "8", "9", "a", "b", "c", "d", "e", "f">>

\* bytes.hex() of a one-byte code
Hex(n) == <<HexChars[(n \div 16) + 1], HexChars[(n % 16) + 1]>>

Codes == 1..NumCodes

\* the device-suggested timeouts, in milliseconds
SuggestedTimeouts == {4000, 8000}

ErrorResult == [type |-> "ERROR"]

OkResult == [type |-> "OK"]

SentResults ==
    {[type |-> "MSG_SENT", expected_ack |-> c, suggested_timeout |-> s] :
        c \in Codes, s \in SuggestedTimeouts}

\* events the wait coordinator can be waiting for
Events ==
    {[type |-> "ACK", code |-> Hex(c)] : c \in Codes}
    \cup {[type |-> t, code |-> <<>>] :
            t \in {"LOGIN_SUCCESS", "LOGIN_FAILED", "STATUS_RESPONSE", "TELEMETRY_RESPONSE"}}

NoWait == [kind |-> "none"]

Pending == [type |-> "pending"]

\* wait_for_event returns None on timeout
NoneRes == [type |-> "None"]

\* mc.wait_for_event(kind, attribute_filters, timeout): the events that fulfil it
Matches(w, ev) == ev.type = w.kind /\ (w.filtered => ev.code = w.code)

\* "timeout" in contact, contact["timeout"]
HasTimeout(t) == t.kind = "contact" /\ ct[t.key].tset

TimeoutOf(t) == ct[t.key].timeout

\* msg_ack l.793: the deadline of the acknowledgment wait, in milliseconds
AckTimeout(t, result) ==
    IF ~HasTimeout(t) \/ TimeoutOf(t) = 0
    THEN (result.suggested_timeout * 12) \div 10
    ELSE TimeoutOf(t) * 1000

\* a request wait that always takes the device-suggested timeout
ReqTimeoutSuggestedOnly(t, result) == (result.suggested_timeout * 1000) \div 800

\* next_cmd l.1399, l.1443, l.1463: the deadline of the login / status /
\* telemetry wait, in milliseconds (suggested_timeout / 800 seconds)
ReqTimeout(t, result) ==
    IF ~HasTimeout(t) \/ TimeoutOf(t) = 0
    THEN (result.suggested_timeout * 1000) \div 800
    ELSE TimeoutOf(t) * 1000

\* an acknowledgment wait that takes the first ACK of any code
AckFilterAny(result) == [filtered |-> FALSE, code |-> <<>>]

\* msg_ack l.792, l.794: the acknowledgment wait is filtered on the code
AckFilter(result) == [filtered |-> TRUE, code |-> Hex(result.expected_ack)]

\* first-of-kind waits carry no filter (l.1400, l.1444, l.1464)
NoFilter == [filtered |-> FALSE, code |-> <<>>]

MkWait(kind, flt, t, to, cont, ln) ==
    [kind |-> kind, filtered |-> flt.filtered, code |-> flt.code, timeout |-> to,
     cont |-> cont, dst |-> t, ln |-> ln, res |-> Pending, heard |-> {},
     early |-> FALSE]

\* ------------------------------------------------------------------------
\* process_cmds / next_cmd
\* ------------------------------------------------------------------------
\* where control is once process_cmds has returned to the caller on top of
\* st: the prompt of an interactive loop, the line loop of process_script
\* (l.1940), or the end of main (l.2183-2186)
IdleOf(st) ==
    IF st = <<>> THEN "done"
    ELSE IF st[Len(st)].kind = "script" THEN "script"
    ELSE "prompt"

Idle == IdleOf(stack)

\* process_cmds l.1927: the loop test before each command; cmds[0][0] raises
\* IndexError on an empty first token, outside next_cmd's try
Cont(rest, o, u, w) ==
    /\ ops' = o
    /\ out' = u
    /\ UNCHANGED <<loopVars, envVars>>
    /\ IF rest = <<>> \/ (rest[1] # <<>> /\ rest[1][1] = "#")
       THEN pc' = Idle /\ why' = why /\ cmds' = <<>> /\ wait' = w
       ELSE IF rest[1] = <<>>
       THEN pc' = "closed" /\ why' = "IndexError" /\ cmds' = <<>> /\ wait' = w
       ELSE pc' = "cmds" /\ why' = why /\ cmds' = rest /\ wait' = w

\* an exception that next_cmd does not catch ends the interactive loop too
Raise(e, o, u, w) ==
    /\ UNCHANGED <<loopVars, envVars>>
    /\ pc' = "closed" /\ why' = e /\ cmds' = <<>>
    /\ ops' = o /\ out' = u /\ wait' = w

\* variant: the IndexError is reported but not caught
ParamErrorFatal(o, u, w) == Raise("IndexError", o, Append(u, "Error in parameters"), w)

\* next_cmd l.1921-1923: IndexError is caught, the rest of the list is dropped
ParamError(o, u, w) == Cont(<<>>, o, Append(u, "Error in parameters"), w)

\* suspend in wait_for_event; the commands after this one wait in cmds
Suspend(rest, o, u, w) ==
    /\ UNCHANGED <<loopVars, envVars>>
    /\ pc' = "wait" /\ why' = why /\ cmds' = rest
    /\ ops' = o /\ out' = u /\ wait' = w

\* cmds[argnum+1:]
Rest(args, argnum) == From(args, argnum + 1)

BoolSettings == {W_color, W_classic_prompt, W_print_name, W_json_msgs}

\* next_cmd "clock" l.829-859. Without "sync" the payload field "time" is read
\* (l.851) before the type of the result is tested (l.852): an error payload
\* has no such field and the subscript raises KeyError
CmdClock(args, o, u, w) ==
    /\ UNCHANGED <<cfgVars, regVars>>
    /\ IF Len(args) > 1 /\ args[2] = W_sync
       THEN \E r \in {ErrorResult, OkResult} :
              Cont(Rest(args, 1), Append(o, [op |-> "set_time", res |-> r]),
                   Append(u, IF r = ErrorResult THEN "Error syncing time" ELSE "Time synced"), w)
       ELSE \E r \in {ErrorResult, OkResult} :
              LET o2 == Append(o, [op |-> "get_time", res |-> r]) IN
              IF r = ErrorResult THEN Raise("KeyError", o2, u, w)
              ELSE Cont(Rest(args, 0), o2, Append(u, "Current time"), w)

\* next_cmd "set" l.894-943, l.1089-1100
CmdSet(args, o, u, w) ==
    IF Len(args) < 2 THEN ParamError(o, u, w) /\ UNCHANGED <<cfgVars, regVars>>
    ELSE IF args[2] \in BoolSettings THEN
        IF Len(args) < 3 THEN ParamError(o, u, w) /\ UNCHANGED <<cfgVars, regVars>>
        ELSE /\ color' = IF args[2] = W_color THEN (args[3] = W_on) ELSE color
             /\ classic' = IF args[2] = W_classic_prompt THEN (args[3] = W_on) ELSE classic
             /\ print_name' = IF args[2] = W_print_name THEN (args[3] = W_on) ELSE print_name
             /\ json_output' = IF args[2] = W_json_msgs THEN (args[3] = W_on) ELSE json_output
             /\ UNCHANGED <<PS, CS, regVars>>
             /\ Cont(Rest(args, 2), o, u, w)
    ELSE IF Len(args) < 3 THEN ParamError(o, u, w) /\ UNCHANGED <<cfgVars, regVars>>
    ELSE /\ UNCHANGED <<cfgVars, regVars>>
         /\ \E r \in {ErrorResult, OkResult} :
              Cont(Rest(args, 2),
                   Append(o, [op |-> "set_custom_var", res |-> r]),
                   Append(u, IF r = ErrorResult THEN "Error" ELSE "Var set"), w)

\* next_cmd "get" l.1102-1104, l.1265-1288 (a name that is no built-in option)
CmdGet(args, o, u, w) ==
    /\ UNCHANGED <<cfgVars, regVars>>
    /\ IF Len(args) < 2 THEN ParamError(o, u, w)
       ELSE \E r \in {ErrorResult, OkResult} :
              Cont(Rest(args, 1),
                   Append(o, [op |-> "get_custom_vars", res |-> r]),
                   Append(u, IF r = ErrorResult THEN "Couldn't get custom variables"
                             ELSE "Unknown var"), w)

\* next_cmd "msg" l.1327-1343: no acknowledgment wait
CmdMsg(args, o, u, w) ==
    /\ UNCHANGED <<cfgVars, regVars>>
    /\ IF Len(args) < 2 THEN ParamError(o, u, w)
       ELSE LET c == get_contact_by_name(args[2]) IN
            IF c = NoneT THEN Cont(Rest(args, 2), o, Append(u, "Unknown contact"), w)
            ELSE IF Len(args) < 3 THEN ParamError(o, u, w)
            ELSE \E r \in {ErrorResult} \cup SentResults :
                   Cont(Rest(args, 2),
                        Append(o, [op |-> "send_msg", dst |-> c, text |-> args[3], res |-> r]),
                        IF r = ErrorResult THEN Append(u, "Error sending message") ELSE u, w)

\* next_cmd "chan" l.1345-1352: int(cmds[1]) may raise ValueError
CmdChan(args, o, u, w) ==
    /\ UNCHANGED <<cfgVars, regVars>>
    /\ IF Len(args) < 2 THEN ParamError(o, u, w)
       ELSE IF ~NumOk(args[2]) THEN Raise("ValueError", o, u, w)
       ELSE IF Len(args) < 3 THEN ParamError(o, u, w)
       ELSE \E r \in {ErrorResult, OkResult} :
              Cont(Rest(args, 2),
                   Append(o, [op |-> "send_chan_msg", chan |-> NumVal(args[2]),
                              text |-> args[3], res |-> r]),
                   IF r = ErrorResult THEN Append(u, "Error sending message") ELSE u, w)

\* next_cmd "public" l.1354-1361
CmdPublic(args, o, u, w) ==
    /\ UNCHANGED <<cfgVars, regVars>>
    /\ IF Len(args) < 2 THEN ParamError(o, u, w)
       ELSE \E r \in {ErrorResult, OkResult} :
              Cont(Rest(args, 1),
                   Append(o, [op |-> "send_chan_msg", chan |-> 0,
                              text |-> args[2], res |-> r]),
                   IF r = ErrorResult THEN Append(u, "Error sending message") ELSE u, w)

\* next_cmd "cmd" l.1363-1379
CmdCmd(args, o, u, w) ==
    /\ UNCHANGED <<cfgVars, regVars>>
    /\ IF Len(args) < 2 THEN ParamError(o, u, w)
       ELSE LET c == get_contact_by_name(args[2]) IN
            IF c = NoneT THEN Cont(Rest(args, 2), o, Append(u, "Unknown contact"), w)
            ELSE IF Len(args) < 3 THEN ParamError(o, u, w)
            ELSE \E r \in {ErrorResult} \cup SentResults :
                   Cont(Rest(args, 2),
                        Append(o, [op |-> "send_cmd", dst |-> c, text |-> args[3], res |-> r]),
                        IF r = ErrorResult THEN Append(u, "Error sending cmd") ELSE u, w)

\* what the device answers to a login / status / telemetry request it accepts
ReqResults == {r \in SentResults : r.expected_ack = 1}

\* next_cmd "login" l.1381-1400, up to the wait
CmdLogin(args, o, u, w) ==
    /\ UNCHANGED <<cfgVars, regVars>>
    /\ IF Len(args) < 2 THEN ParamError(o, u, w)
       ELSE LET c == get_contact_by_name(args[2]) IN
            IF c = NoneT THEN Cont(Rest(args, 2), o, Append(u, "Unknown contact"), w)
            ELSE IF Len(args) < 3 THEN ParamError(o, u, w)
            ELSE \E r \in {ErrorResult} \cup ReqResults :
                   LET o2 == Append(o, [op |-> "send_login", dst |-> c, text |-> args[3], res |-> r])
                   IN IF r = ErrorResult
                      THEN Cont(Rest(args, 2), o2, Append(u, "Error while login"), w)
                      ELSE Suspend(Rest(args, 2), o2, u,
                                   MkWait("LOGIN_SUCCESS", NoFilter, c, ReqTimeout(c, r), "login", NoneT))

\* next_cmd "req_status" l.1434-1444 and "req_telemetry" l.1454-1464, up to the
\* wait. The contact is not checked: with an unknown name the request is made
\* with None, which the library either refuses with an exception or answers
\* with an error; reading "timeout" in None raises TypeError.
CmdReq(args, o, u, w, opname, kind, cont) ==
    /\ UNCHANGED <<cfgVars, regVars>>
    /\ IF Len(args) < 2 THEN ParamError(o, u, w)
       ELSE LET c == get_contact_by_name(args[2]) IN
            IF c = NoneT
            THEN \/ Raise("TypeError", o, u, w)
                 \/ Cont(Rest(args, 1),
                         Append(o, [op |-> opname, dst |-> c, res |-> ErrorResult]),
                         Append(u, "Error while requesting"), w)
            ELSE \E r \in {ErrorResult} \cup ReqResults :
                   LET o2 == Append(o, [op |-> opname, dst |-> c, res |-> r])
                   IN IF r = ErrorResult
                      THEN Cont(Rest(args, 1), o2, Append(u, "Error while requesting"), w)
                      ELSE Suspend(Rest(args, 1), o2, u,
                                   MkWait(kind, NoFilter, c, ReqTimeout(c, r), cont, NoneT))

\* next_cmd "logout" l.1415-1426. The contact is not checked: with an unknown
\* name send_logout is called with None, which the library either refuses with
\* an exception or passes on to the device.
CmdLogout(args, o, u, w) ==
    /\ UNCHANGED <<cfgVars, regVars>>
    /\ IF Len(args) < 2 THEN ParamError(o, u, w)
       ELSE LET c == get_contact_by_name(args[2]) IN
            \/ c = NoneT /\ Raise("TypeError", o, u, w)
            \/ \E r \in {ErrorResult, OkResult} :
                 Cont(Rest(args, 1),
                      Append(o, [op |-> "send_logout", dst |-> c, res |-> r]),
                      Append(u, IF r = ErrorResult THEN "Error while logout" ELSE "Logout ok"), w)

\* next_cmd "req_acl" l.1518-1539: `"timeout" in contact` raises TypeError when
\* the name is unknown; the binary request returns None or the list
CmdReqAcl(args, o, u, w) ==
    /\ UNCHANGED <<cfgVars, regVars>>
    /\ IF Len(args) < 2 THEN ParamError(o, u, w)
       ELSE LET c == get_contact_by_name(args[2]) IN
            IF c = NoneT THEN Raise("TypeError", o, u, w)
            ELSE \E r \in {NoneRes, OkResult} :
                   Cont(Rest(args, 1),
                        Append(o, [op |-> "req_acl", dst |-> c, res |-> r]),
                        Append(u, IF r = NoneRes THEN "Error getting data" ELSE "acl"), w)

\* next_cmd "contact_timeout" l.1428-1432
CmdContactTimeout(args, o, u, w) ==
    IF Len(args) < 2 THEN ParamError(o, u, w) /\ UNCHANGED <<cfgVars, regVars>>
    ELSE LET c == get_contact_by_name(args[2]) IN
         IF Len(args) < 3 THEN ParamError(o, u, w) /\ UNCHANGED <<cfgVars, regVars>>
         ELSE IF ~NumOk(args[3]) THEN Raise("ValueError", o, u, w) /\ UNCHANGED <<cfgVars, regVars>>
         ELSE IF c = NoneT THEN Raise("TypeError", o, u, w) /\ UNCHANGED <<cfgVars, regVars>>
         ELSE /\ ct' = [ct EXCEPT ![c.key].tset = TRUE, ![c.key].timeout = NumVal(args[3])]
              /\ UNCHANGED <<cfgVars, contacts, pending>>
              /\ Cont(Rest(args, 2), o, u, w)

\* a frame of the stack: the commands that follow the one that opened the
\* loop, and the locals of the interactive loop (if any) that is suspended
Frame(rest) ==
    [kind |-> "loop", rest |-> rest, lines |-> <<>>, contact |-> contact,
     prev_contact |-> prev_contact, last_ack |-> last_ack]

\* interactive_loop l.503-541, called from next_cmd: the caller is suspended,
\* the new loop starts at the target `to` with an empty previous-target slot;
\* subscribe_to_msgs(mc, above=True) (l.507, l.257) resets the JSON display
EnterLoop(to, rest, o, u, w) ==
    /\ Len(stack) < MaxDepth
    /\ stack' = Append(stack, Frame(rest))
    /\ contact' = to /\ prev_contact' = NoneT /\ last_ack' = TRUE
    /\ json_output' = FALSE
    /\ PS' = Subscribe(PS) /\ CS' = Subscribe(CS)
    /\ UNCHANGED <<color, classic, print_name, regVars, connected, device>>
    /\ pc' = "prompt" /\ why' = why /\ cmds' = <<>>
    /\ ops' = o /\ out' = u /\ wait' = w

\* the newline that ends a line of a file
NL == <<"\n">>

\* the script files that exist, by name: the lines f.readlines() gives
\* (l.1937-1938). The first line of script x lacks the text of its msg
\* command; the first line of script hi is a command with an empty name;
\* script pw logs in and then waits for an acknowledgment.
Scripts ==
    [f \in {W_x, W_hi, W_pw} |->
        IF f = W_x
        THEN <<W_msg \o W_sp \o N_Bob \o NL, W_hash \o W_hi \o NL, NL,
               W_public \o W_sp \o W_hi \o NL>>
        ELSE IF f = W_hi
        THEN <<<<"\"", "\"">> \o NL, W_public \o W_sp \o W_hi \o NL>>
        ELSE <<W_login \o W_sp \o N_Rep \o W_sp \o W_pw \o NL, W_wait_ack \o NL>>]

\* next_cmd "script" l.1905-1907, process_script l.1930-1938: a file that
\* does not exist is reported; else its lines are read
CmdScript(args, o, u, w) ==
    IF Len(args) < 2 THEN ParamError(o, u, w) /\ UNCHANGED <<cfgVars, regVars>>
    ELSE IF args[2] \notin DOMAIN Scripts
    THEN /\ UNCHANGED <<cfgVars, regVars>>
         /\ Cont(Rest(args, 1), o, Append(u, "file not found"), w)
    ELSE /\ Len(stack) <= MaxDepth
         /\ stack' = Append(stack, [Frame(Rest(args, 1)) EXCEPT
                                     !.kind = "script", !.lines = Scripts[args[2]]])
         /\ pc' = "script" /\ why' = why /\ cmds' = <<>>
         /\ ops' = o /\ out' = u /\ wait' = w
         /\ UNCHANGED <<loopVars, cfgVars, regVars, connected, device>>

\* next_cmd "flush_pending" l.1573-1574
CmdFlushPending(args, o, u, w) ==
    /\ pending' = {}
    /\ UNCHANGED <<cfgVars, contacts, ct>>
    /\ Cont(Rest(args, 0), o, u, w)

\* variant: the dictionary stored in the registry has lost its name
PromotedNameless(k) ==
    [adv_name |-> <<>>, type |-> Adverts[k].type, tset |-> FALSE, timeout |-> 0]

\* l.1588: the dictionary that pop_pending_contact gave is stored as it is
Promoted(k) ==
    [adv_name |-> Adverts[k].adv_name, type |-> Adverts[k].type,
     tset |-> FALSE, timeout |-> 0]

\* next_cmd "add_pending" l.1576-1592: pop_pending_contact takes the entry
\* out of the pending contacts before the device is asked
CmdAddPending(args, o, u, w) ==
    /\ UNCHANGED cfgVars
    /\ IF Len(args) < 2 THEN ParamError(o, u, w) /\ UNCHANGED regVars
       ELSE IF \A k \in pending : KeyText(k) # args[2]
       THEN /\ UNCHANGED regVars
            /\ Cont(Rest(args, 1), o, Append(u, "Contact does not exist"), w)
       ELSE LET k == CHOOSE k \in pending : KeyText(k) = args[2] IN
            \E r \in {ErrorResult, OkResult} :
              LET o2 == Append(o, [op |-> "add_contact", key |-> k, res |-> r]) IN
              /\ pending' = pending \ {k}
              /\ IF r = ErrorResult
                 THEN /\ UNCHANGED <<contacts, ct>>
                      /\ Cont(Rest(args, 1), o2, Append(u, "Error adding contact"), w)
                 ELSE /\ contacts' = IF \E i \in 1..Len(contacts) : contacts[i] = k
                                     THEN contacts ELSE Append(contacts, k)
                      /\ ct' = [j \in DOMAIN ct \cup {k} |->
                                 IF j = k THEN Promoted(k) ELSE ct[j]]
                      /\ Cont(Rest(args, 1), o2, u, w)

\* next_cmd "remove_contact" l.1777-1794: the dictionary of the contact stays
\* with whoever holds it (the current target), the registry forgets its key
CmdRemoveContact(args, o, u, w) ==
    /\ UNCHANGED <<cfgVars, ct, pending>>
    /\ IF Len(args) < 2 THEN ParamError(o, u, w) /\ UNCHANGED contacts
       ELSE LET c == get_contact_by_name(args[2]) IN
            IF c = NoneT
            THEN /\ UNCHANGED contacts
                 /\ Cont(Rest(args, 1), o, Append(u, "Unknown contact"), w)
            ELSE \E r \in {ErrorResult, OkResult} :
                   LET o2 == Append(o, [op |-> "remove_contact", key |-> c.key, res |-> r]) IN
                   IF r = ErrorResult
                   THEN /\ UNCHANGED contacts
                        /\ Cont(Rest(args, 1), o2, Append(u, "Error removing contact"), w)
                   ELSE /\ contacts' = SelectSeq(contacts, LAMBDA j : j # c.key)
                        /\ Cont(Rest(args, 1), o2, u, w)

\* ------------------------------------------------------------------------
\* Messages: process_event_message l.88-178
\* ------------------------------------------------------------------------
\* no message has come in yet
NoMsg == [type |-> "none"]

Msgs ==
    {[type |-> "PRIV", pubkey_prefix |-> k, channel_idx |-> 0] : k \in Keys \cup {"k?"}}
    \cup {[type |-> "CHAN", pubkey_prefix |-> "", channel_idx |-> n] : n \in 0..MaxChan}

\* l.91-93: get_msg found no message
NoMoreMsgs == [type |-> "NO_MORE_MSGS"]

\* process_event_message(mc, ev, json_output): last_node after the display of
\* message m in the display mode js, when it was ln before. l.98-102 (JSON
\* display leaves last_node alone), l.114-121, l.155-162
ProcessEventMessage(js, m, ln) ==
    IF js THEN ln
    ELSE IF m.type = "PRIV" THEN
        (IF get_contact_by_key_prefix(m.pubkey_prefix) = NoneT THEN ln
         ELSE get_contact_by_key_prefix(m.pubkey_prefix))
    ELSE IF m.channel_idx = 0 THEN Chan(W_public, 0)
    ELSE Chan(W_ch \o Str(m.channel_idx), m.channel_idx)

\* handle_message l.244-251: the display mode is handle_message.json_output
LastNodeAfter(m) == ProcessEventMessage(json_output, m, last_node)

\* next_cmd "recv" l.1796-1799: the message that get_msg returns is displayed
\* in the display mode of the command (l.804-805)
CmdRecv(args, o, u, w) ==
    /\ UNCHANGED <<cfgVars, regVars>>
    /\ \E r \in {ErrorResult, NoMoreMsgs} \cup Msgs :
         Cont(Rest(args, 0),
              Append(o, [op |-> "get_msg", json |-> StartsWith(args[1], W_dot), res |-> r]),
              IF r = ErrorResult THEN Append(u, "Error retrieving messages") ELSE u, w)

\* what a command of the list does to the message display. The message that
\* get_msg returns is an event of the kind handle_message is subscribed to
\* (l.260-264): the subscription displays it (as it displays the messages of
\* the start-up purge, l.512-515, which the loop itself never prints), and
\* recv displays it again.
RecvEffect(before) ==
    LET n == Len(ops') IN
    IF n > Len(before) /\ ops'[n].op = "get_msg" /\ ops'[n].res \in Msgs
    THEN /\ last_msg' = ops'[n].res
         /\ shown' = Handlers(ops'[n].res) + 1
         /\ last_node' = ProcessEventMessage(ops'[n].json, ops'[n].res,
                                             LastNodeAfter(ops'[n].res))
    ELSE UNCHANGED rxVars

\* next_cmd "wait_ack" l.1880-1891: the first ACK event, of any code, within
\* five seconds
CmdWaitAck(args, o, u, w) ==
    /\ UNCHANGED <<cfgVars, regVars>>
    /\ Suspend(Rest(args, 0), o, u,
               MkWait("ACK", NoFilter, NoneT, 5000, "wait_ack", NoneT))

\* next_cmd "msgs_subscribe" l.1893-1894, subscribe_to_msgs l.253-258: the
\* display mode of the command becomes the display mode of inbound messages
CmdMsgsSubscribe(args, o, u, w) ==
    /\ json_output' = StartsWith(args[1], W_dot)
    /\ PS' = Subscribe(PS) /\ CS' = Subscribe(CS)
    /\ UNCHANGED <<color, classic, print_name, regVars>>
    /\ Cont(Rest(args, 0), o, u, w)

\* next_cmd "chat_to" l.1899-1903
CmdChatTo(args, o, u, w) ==
    IF Len(args) < 2 THEN ParamError(o, u, w) /\ UNCHANGED <<cfgVars, regVars>>
    ELSE EnterLoop(get_contact_by_name(args[2]), Rest(args, 1), o, u, w)

\* next_cmd l.804-808: a leading "." only selects JSON output for the command
CmdName(tok) == IF StartsWith(tok, W_dot) THEN Tail(tok) ELSE tok

\* next_cmd l.800-1923: one command of the chained list
NextCmd(args, o, u, w) ==
    LET cmd == CmdName(args[1]) IN
    IF cmd = W_set THEN CmdSet(args, o, u, w)
    ELSE IF cmd = W_get THEN CmdGet(args, o, u, w)
    ELSE IF cmd = W_msg THEN CmdMsg(args, o, u, w)
    ELSE IF cmd \in {W_chan, W_ch} THEN CmdChan(args, o, u, w)
    ELSE IF cmd = W_public THEN CmdPublic(args, o, u, w)
    ELSE IF cmd = W_cmd THEN CmdCmd(args, o, u, w)
    ELSE IF cmd = W_login THEN CmdLogin(args, o, u, w)
    ELSE IF cmd \in {W_req_status, W_rs} THEN
        CmdReq(args, o, u, w, "send_statusreq", "STATUS_RESPONSE", "req_status")
    ELSE IF cmd \in {W_req_telemetry, W_rt} THEN
        CmdReq(args, o, u, w, "send_telemetry_req", "TELEMETRY_RESPONSE", "req_telemetry")
    ELSE IF cmd = W_contact_timeout THEN CmdContactTimeout(args, o, u, w)
    ELSE IF cmd = W_logout THEN CmdLogout(args, o, u, w)
    ELSE IF cmd = W_clock THEN CmdClock(args, o, u, w)
    ELSE IF cmd = W_req_acl THEN CmdReqAcl(args, o, u, w)
    ELSE IF cmd \in {W_interactive, W_im, W_chat} THEN  \* l.1896-1897
        EnterLoop(NoneT, Rest(args, 0), o, u, w)
    ELSE IF cmd \in {W_chat_to, W_imto, W_to} THEN CmdChatTo(args, o, u, w)
    ELSE IF cmd = W_script THEN CmdScript(args, o, u, w)
    ELSE IF cmd \in {W_recv, W_r} THEN CmdRecv(args, o, u, w)
    ELSE IF cmd \in {W_wait_ack, W_wa} THEN CmdWaitAck(args, o, u, w)
    ELSE IF cmd \in {W_msgs_subscribe, W_ms} THEN CmdMsgsSubscribe(args, o, u, w)
    ELSE IF cmd = W_flush_pending THEN CmdFlushPending(args, o, u, w)
    ELSE IF cmd = W_add_pending THEN CmdAddPending(args, o, u, w)
    ELSE IF cmd = W_remove_contact THEN CmdRemoveContact(args, o, u, w)
    ELSE IF get_contact_by_name(args[1]) = NoneT
    THEN \* l.1909-1914: no such command and no contact of that name
         /\ UNCHANGED <<cfgVars, regVars>>
         /\ Cont(<<>>, o, Append(u, "Unknown command"), w)
    ELSE \* l.1916: the name of a contact opens an interactive loop to it
         EnterLoop(get_contact_by_name(args[1]), Rest(args, 0), o, u, w)

\* process_cmds l.1925-1928, entered with a fresh argument list
ProcessCmds(args, o, u, w) ==
    IF args = <<>> \/ args[1] = <<>> \/ args[1][1] = "#"
    THEN Cont(args, o, u, w) /\ UNCHANGED <<cfgVars, regVars>>
    ELSE NextCmd(args, o, u, w)

\* ------------------------------------------------------------------------
\* msg_ack l.786-798
\* ------------------------------------------------------------------------
\* mc.commands.send_msg: an error, or expected_ack and suggested_timeout. With
\* a destination that is no contact (a channel dictionary has no public key)
\* the library call is undefined: it may also raise.
SendMsgOutcomes(t) ==
    {ErrorResult} \cup SentResults
        \cup (IF t.kind = "contact" THEN {} ELSE {[type |-> "raise"]})

\* msg_ack l.788-790: what msg_ack returns when the device answers the send
\* with an error
SendFailed == FALSE

\* The part of msg_ack before its wait. cont names the caller ("send" l.765 and
\* l.771, "reply" l.662); a False result returns to the caller at once.
\* msg_ack is suspended in send_msg (l.787) and subscribes for the ACK only
\* at l.794, once it runs again with the result, from which it takes the
\* code: `early` tells that the device's ACK was published after the result
\* and before that subscription, when nothing was subscribed for it.
MsgAck(t, msg, cont, ln) ==
    \E r \in SendMsgOutcomes(t) :
        LET o2 == <<[op |-> "send_msg", dst |-> t, text |-> msg, res |-> r]>> IN
        /\ cmds' = <<>>
        /\ ops' = o2
        /\ UNCHANGED envVars
        /\ IF r.type = "raise" THEN
               /\ pc' = "closed" /\ why' = "KeyError"
               /\ out' = <<>> /\ wait' = NoWait
               /\ UNCHANGED loopVars
           ELSE IF r = ErrorResult THEN
               /\ pc' = "prompt" /\ why' = why
               /\ out' = <<"Failed to send message">> /\ wait' = NoWait
               /\ last_ack' = SendFailed
               /\ contact' = IF cont = "reply" THEN ln ELSE contact
               /\ UNCHANGED prev_contact
           ELSE
               /\ pc' = "wait" /\ why' = why
               /\ out' = <<>>
               /\ \E e \in BOOLEAN :
                    wait' = [MkWait("ACK", AckFilter(r), t, AckTimeout(t, r), cont, ln)
                                EXCEPT !.early = e]
               /\ UNCHANGED loopVars

\* ------------------------------------------------------------------------
\* The input lines typed in the model
\* ------------------------------------------------------------------------
NavLines ==
    {W_to, W_toSp,
     W_toSp \o N_Bob, W_toSp \o N_Rep, W_toSp \o W_xyz, W_toSp \o N_me,
     W_toSp \o W_public, W_toSp \o W_dotdot, W_toSp \o W_tilde, W_toSp \o W_slash,
     W_toSp \o W_bang,
     W_toSp \o W_ch, W_toSp \o W_ch \o W_x, W_toSp \o W_ch \o W_minus1,
     W_toSp \o W_dquote \o N_Bob \o W_dquote,
     W_toSp \o W_dquote \o N_Bob,
     W_toSp \o W_dquote \o W_dquote}
    \cup {W_toSp \o W_ch \o Str(n) : n \in 0..MaxChan}

TextLines ==
    {W_hi, W_bang \o W_hi, W_send \o W_sp \o W_hi, W_dquote \o W_hi,
     W_publicSp \o W_hi}

TimeoutLines ==
    {W_getTimeout, W_setTimeoutSp \o W_x}
    \cup {W_setTimeoutSp \o Str(v) : v \in 0..MaxOverride}

ReqLines ==
    {W_loginSp \o W_pw, W_req_status, W_req_telemetry}

RawLines ==
    {W_dollar, W_dollar \o W_dquote \o W_dquote,
     W_dollar \o W_msg \o W_sp \o N_Bob \o W_sp \o W_hi,
     W_dollar \o W_msg \o W_sp \o N_Bob,
     W_dollar \o W_chan \o W_sp \o W_x \o W_sp \o W_hi}
    \cup {W_dollar \o W_set \o W_sp \o o \o W_sp \o v :
            o \in {W_color, W_classic_prompt, W_print_name}, v \in {W_on, W_off}}

Lines == {<<>>, W_quit, W_q} \cup NavLines \cup TextLines \cup TimeoutLines
            \cup ReqLines \cup RawLines

\* ------------------------------------------------------------------------
\* interactive_loop l.497-782: one action per branch of the loop body
\* ------------------------------------------------------------------------
\* a branch that touches neither the device nor the dispatcher
Local(l, u) ==
    /\ line' = l
    /\ UNCHANGED envVars
    /\ pc' = "prompt" /\ why' = why
    /\ cmds' = <<>> /\ wait' = NoWait /\ ops' = <<>> /\ out' = u

\* the loop body is left: by break (quit), or by an exception. EOFError,
\* KeyboardInterrupt and CancelledError are caught at l.778-782 and end the loop
\* in order; any other exception leaves interactive_loop uncaught
EndLoop(l, e) ==
    /\ line' = l
    /\ UNCHANGED envVars
    /\ pc' = "closed" /\ why' = e
    /\ cmds' = <<>> /\ wait' = NoWait /\ ops' = <<>> /\ out' = <<>>

\* l.606-607
Blank(L) ==
    /\ pc = "prompt"
    /\ \E l \in L :
        /\ Branch(l) = "blank"
        /\ Local(l, <<>>)
        /\ UNCHANGED <<loopVars, rxVars, cfgVars, regVars>>

\* l.610-612
Raw(L) ==
    /\ pc = "prompt"
    /\ \E l \in L :
        /\ Branch(l) = "raw"
        /\ line' = l
        /\ LET sh == ShlexSplit(From(l, 1)) IN
           IF ~sh.ok
           THEN Raise("ValueError", <<>>, <<>>, NoWait) /\ UNCHANGED <<cfgVars, regVars>>
           ELSE ProcessCmds(sh.toks, <<>>, <<>>, NoWait)
        /\ RecvEffect(<<>>)

\* l.615-617: the token after "to ", unquoted by shlex when it starts with a quote
ToDest(l) ==
    LET dest == From(l, 3)
        sh == ShlexSplit(dest)
    IN IF StartsWith(dest, W_dquote) \/ StartsWith(dest, W_squote)
       THEN [ok |-> sh.ok, dest |-> IF sh.ok THEN sh.toks[1] ELSE <<>>]
       ELSE [ok |-> TRUE, dest |-> dest]

\* l.618-633: the target a token resolves to
Resolve(dest) ==
    LET nc == get_contact_by_name(dest) IN
    IF nc # NoneT THEN [exc |-> "", nc |-> nc, out |-> <<>>]
    ELSE IF dest = W_public THEN [exc |-> "", nc |-> Chan(W_public, 0), out |-> <<>>]
    ELSE IF StartsWith(dest, W_ch) THEN
        IF NumOk(From(dest, 2))
        THEN [exc |-> "", out |-> <<>>,
              nc |-> Chan(W_chan \o Str(NumVal(From(dest, 2))), NumVal(From(dest, 2)))]
        ELSE [exc |-> "ValueError", nc |-> contact, out |-> <<>>]
    ELSE IF dest = W_dotdot THEN [exc |-> "", nc |-> prev_contact, out |-> <<>>]
    ELSE IF dest = W_tilde \/ dest = W_slash \/ dest = SelfName
        THEN [exc |-> "", nc |-> NoneT, out |-> <<>>]
    ELSE IF dest = W_bang THEN [exc |-> "", nc |-> last_node, out |-> <<>>]
    ELSE [exc |-> "", nc |-> contact, out |-> <<"Contact not found in contacts">>]

\* a navigation that forgets to fill the previous-target slot
AdoptNoPush(nc) ==
    IF nc # contact
    THEN last_ack' = TRUE /\ contact' = nc /\ UNCHANGED prev_contact
    ELSE UNCHANGED loopVars

\* l.634-637: the resolved target is adopted only when it differs
Adopt(nc) ==
    IF nc # contact
    THEN /\ last_ack' = TRUE
         /\ prev_contact' = contact
         /\ contact' = nc
    ELSE UNCHANGED loopVars

\* a navigation that records the target it resolved as the last sender
ToRecordsTarget(L) ==
    /\ pc = "prompt"
    /\ \E l \in L :
        /\ Branch(l) = "to"
        /\ UNCHANGED <<last_msg, shown, cfgVars, regVars>>
        /\ LET d == ToDest(l) IN
           IF ~d.ok THEN EndLoop(l, "ValueError") /\ UNCHANGED <<loopVars, last_node>>
           ELSE LET r == Resolve(d.dest) IN
                IF r.exc # "" THEN EndLoop(l, r.exc) /\ UNCHANGED <<loopVars, last_node>>
                ELSE Local(l, r.out) /\ Adopt(r.nc) /\ last_node' = r.nc

\* l.614-637
To(L) ==
    /\ pc = "prompt"
    /\ \E l \in L :
        /\ Branch(l) = "to"
        /\ UNCHANGED <<rxVars, cfgVars, regVars>>
        /\ LET d == ToDest(l) IN
           IF ~d.ok THEN EndLoop(l, "ValueError") /\ UNCHANGED loopVars
           ELSE LET r == Resolve(d.dest) IN
                IF r.exc # "" THEN EndLoop(l, r.exc) /\ UNCHANGED loopVars
                ELSE Local(l, r.out) /\ Adopt(r.nc)

\* l.639-643
ShowTo(L) ==
    /\ pc = "prompt"
    /\ \E l \in L :
        /\ Branch(l) = "show_to"
        /\ Local(l, <<IF contact = NoneT THEN SelfName ELSE AdvName(contact)>>)
        /\ UNCHANGED <<loopVars, rxVars, cfgVars, regVars>>

\* l.645-646
Quit(L) ==
    /\ pc = "prompt"
    /\ \E l \in L :
        /\ Branch(l) = "quit"
        /\ EndLoop(l, "quit")
        /\ UNCHANGED <<loopVars, rxVars, cfgVars, regVars>>

\* l.649-652
Public(L) ==
    /\ pc = "prompt"
    /\ \E l \in L :
        /\ Branch(l) = "public"
        /\ line' = l
        /\ UNCHANGED <<loopVars, rxVars>>
        /\ ProcessCmds(<<Split1(l)[1], Split1(l)[2]>>, <<>>, <<>>, NoWait)

\* a reply that does not test whether a message was received
ReplyKindUnchecked(ln) == IF TType(ln) = 0 THEN "chan" ELSE "contact"

\* l.657-661: no sender yet, a channel, or a contact
ReplyKind(ln) ==
    IF ln = NoneT THEN "none"
    ELSE IF TType(ln) = 0 THEN "chan"
    ELSE "contact"

\* l.655-664
Reply(L) ==
    /\ pc = "prompt"
    /\ \E l \in L :
        /\ Branch(l) = "reply"
        /\ line' = l
        /\ UNCHANGED <<rxVars>>
        /\ LET ln == last_node IN
           IF ReplyKind(ln) = "none" THEN
               /\ Local(l, <<"No received msg yet !">>)
               /\ UNCHANGED <<loopVars, cfgVars, regVars>>
           ELSE IF ReplyKind(ln) = "chan" THEN
               /\ UNCHANGED loopVars
               /\ IF contact = NoneT
                  THEN Raise("TypeError", <<>>, <<>>, NoWait) /\ UNCHANGED <<cfgVars, regVars>>
                  ELSE IF contact.kind = "contact"
                  THEN Raise("KeyError", <<>>, <<>>, NoWait) /\ UNCHANGED <<cfgVars, regVars>>
                  ELSE ProcessCmds(<<W_chan, Str(contact.chan_nb), l>>, <<>>, <<>>, NoWait)
           ELSE /\ MsgAck(ln, From(l, 1), "reply", ln)
                /\ UNCHANGED <<cfgVars, regVars>>

\* l.667-669
PassThrough(L) ==
    /\ pc = "prompt"
    /\ \E l \in L :
        /\ Branch(l) = "passthrough"
        /\ line' = l
        /\ LET sh == ShlexSplit(l) IN
           IF ~sh.ok
           THEN Raise("ValueError", <<>>, <<>>, NoWait) /\ UNCHANGED <<cfgVars, regVars>>
           ELSE ProcessCmds(sh.toks, <<>>, <<>>, NoWait)
        /\ RecvEffect(<<>>)

\* l.672-683
CtCmd(L) ==
    /\ pc = "prompt"
    /\ \E l \in L :
        /\ Branch(l) = "ct_cmd"
        /\ line' = l
        /\ UNCHANGED <<loopVars, rxVars>>
        /\ ProcessCmds(<<l, AdvName(contact)>>, <<>>, <<>>, NoWait)

\* l.685-687
SetTimeout(L) ==
    /\ pc = "prompt"
    /\ \E l \in L :
        /\ Branch(l) = "set_timeout"
        /\ UNCHANGED <<loopVars, rxVars, cfgVars, contacts, pending>>
        /\ LET v == SplitSp(l)[3] IN
           IF ~NumOk(v) THEN EndLoop(l, "ValueError") /\ UNCHANGED ct
           ELSE /\ Local(l, <<>>)
                /\ ct' = [ct EXCEPT ![contact.key].tset = TRUE,
                                    ![contact.key].timeout = NumVal(v)]

\* l.689-690
GetTimeout(L) ==
    /\ pc = "prompt"
    /\ \E l \in L :
        /\ Branch(l) = "get_timeout"
        /\ Local(l, <<Str(IF HasTimeout(contact) THEN TimeoutOf(contact) ELSE 0)>>)
        /\ UNCHANGED <<loopVars, rxVars, cfgVars, regVars>>

\* l.725-732
CtCmdArg(L) ==
    /\ pc = "prompt"
    /\ \E l \in L :
        /\ Branch(l) = "ct_cmd_arg"
        /\ line' = l
        /\ UNCHANGED <<loopVars, rxVars>>
        /\ ProcessCmds(<<Split1(l)[1], AdvName(contact), Split1(l)[2]>>, <<>>, <<>>, NoWait)

\* l.761-764: the text left after the send keyword and an opening quote
SendText(l) ==
    LET a == IF StartsWith(l, W_send) THEN From(l, 5) ELSE l
    IN IF StartsWith(a, W_dquote) THEN From(a, 1) ELSE a

\* l.760-765
Send(L) ==
    /\ pc = "prompt"
    /\ \E l \in L :
        /\ Branch(l) = "send"
        /\ line' = l
        /\ UNCHANGED <<rxVars, cfgVars, regVars>>
        /\ MsgAck(contact, SendText(l), "send", NoneT)

\* l.767-768
ChanText(L) ==
    /\ pc = "prompt"
    /\ \E l \in L :
        /\ Branch(l) = "chan_text"
        /\ line' = l
        /\ UNCHANGED <<loopVars, rxVars>>
        /\ ProcessCmds(<<W_chan, Str(contact.chan_nb), l>>, <<>>, <<>>, NoWait)

\* l.770-771
ChatText(L) ==
    /\ pc = "prompt"
    /\ \E l \in L :
        /\ Branch(l) = "chat_text"
        /\ line' = l
        /\ UNCHANGED <<rxVars, cfgVars, regVars>>
        /\ MsgAck(contact, l, "send", NoneT)

\* l.773-776
CmdText(L) ==
    /\ pc = "prompt"
    /\ \E l \in L :
        /\ Branch(l) = "cmd_text"
        /\ line' = l
        /\ UNCHANGED <<loopVars, rxVars>>
        /\ ProcessCmds(<<W_cmd, AdvName(contact), l>>, <<>>, <<>>, NoWait)

\* the exception leaves the scripts that run inside the innermost interactive
\* loop; that loop catches it (l.778-782)
RECURSIVE Unwind(_)
Unwind(st) ==
    IF st = <<>> \/ st[Len(st)].kind = "loop" THEN st
    ELSE Unwind(SubSeq(st, 1, Len(st) - 1))

\* l.601, l.778-779: end of input at the prompt
EndOfInput ==
    /\ pc = "prompt"
    /\ pc' = "closed" /\ why' = "eof"
    /\ UNCHANGED <<loopVars, rxVars, cfgVars, regVars, line, cmds, wait, ops, out, envVars>>

\* l.778-782: KeyboardInterrupt / CancelledError at any suspension point
Interrupt ==
    /\ pc \notin {"closed", "done"}
    /\ pc' = "closed" /\ why' = "interrupt"
    /\ stack' = Unwind(stack)
    /\ UNCHANGED <<loopVars, rxVars, cfgVars, regVars, line, cmds, wait, ops, out, connected, device>>

\* process_cmds l.1927-1928: the next chained command of the list
ContinueCmds ==
    /\ pc = "cmds"
    /\ NextCmd(cmds, ops, out, wait)
    /\ RecvEffect(ops)
    /\ UNCHANGED line

\* interactive_loop has returned (break at l.646, or the handlers of
\* l.778-782 ran): next_cmd returns cmds[argnum+1:] (l.1918-1919) and
\* process_cmds (l.1927-1928) goes on with the commands that followed
LoopReturns ==
    /\ pc = "closed" /\ why \in {"quit", "eof", "interrupt"}
    /\ stack # <<>>
    /\ LET f == stack[Len(stack)]
           below == SubSeq(stack, 1, Len(stack) - 1)
       IN /\ stack' = below
          /\ contact' = f.contact
          /\ prev_contact' = f.prev_contact
          /\ last_ack' = f.last_ack
          /\ ops' = <<>> /\ out' = <<>> /\ wait' = NoWait
          /\ IF f.rest = <<>> \/ (f.rest[1] # <<>> /\ f.rest[1][1] = "#")
             THEN /\ pc' = IdleOf(below)
                  /\ why' = "" /\ cmds' = <<>>
             ELSE IF f.rest[1] = <<>>
             THEN pc' = "closed" /\ why' = "IndexError" /\ cmds' = <<>>
             ELSE pc' = "cmds" /\ why' = "" /\ cmds' = f.rest
    /\ UNCHANGED <<rxVars, cfgVars, regVars, line, connected, device>>

\* process_script l.1940-1943: the next line of the script, without its last
\* character, is split and given to process_cmds, whose loop test (l.1927) is
\* made before the first command; after the last line next_cmd returns
\* cmds[argnum+1:] and the calling process_cmds goes on
ScriptStep ==
    /\ pc = "script"
    /\ LET f == stack[Len(stack)]
           below == SubSeq(stack, 1, Len(stack) - 1)
           toks == IF f.lines = <<>> THEN [ok |-> TRUE, toks |-> f.rest]
                   ELSE ShlexSplit(SubSeq(f.lines[1], 1, Len(f.lines[1]) - 1))
           st == IF f.lines = <<>> THEN below
                 ELSE [stack EXCEPT ![Len(stack)].lines = Tail(f.lines)]
       IN /\ stack' = IF toks.ok THEN st ELSE Unwind(stack)
          /\ IF ~toks.ok
             THEN pc' = "closed" /\ why' = "ValueError" /\ cmds' = <<>>
             ELSE IF toks.toks = <<>> \/ (toks.toks[1] # <<>> /\ toks.toks[1][1] = "#")
             THEN pc' = IdleOf(st) /\ why' = why /\ cmds' = <<>>
             ELSE IF toks.toks[1] = <<>>
             THEN pc' = "closed" /\ why' = "IndexError" /\ cmds' = <<>>
             ELSE pc' = "cmds" /\ why' = why /\ cmds' = toks.toks
    /\ UNCHANGED <<loopVars, rxVars, cfgVars, regVars, line, wait, ops, out, connected, device>>

\* next_cmd l.1921-1923: the try of next_cmd encloses the interactive loop or
\* the script it started, so an IndexError raised inside them (cmds[0][0] of
\* process_cmds l.1927 on an empty word) is caught by the next_cmd that
\* started the innermost one: it is reported, that next_cmd returns None and
\* its process_cmds ends
IndexErrorCaught ==
    /\ pc = "closed" /\ why = "IndexError"
    /\ stack # <<>>
    /\ LET f == stack[Len(stack)]
           below == SubSeq(stack, 1, Len(stack) - 1)
       IN /\ stack' = below
          /\ IF f.kind = "loop"
             THEN /\ contact' = f.contact
                  /\ prev_contact' = f.prev_contact
                  /\ last_ack' = f.last_ack
             ELSE UNCHANGED loopVars
          /\ out' = Append(out, "Error in parameters")
          /\ pc' = IdleOf(below) /\ why' = "" /\ cmds' = <<>>
          /\ wait' = NoWait
    /\ UNCHANGED <<rxVars, cfgVars, regVars, line, ops, connected, device>>

\* main l.2151-2157, subscribe_to_msgs l.253-265: the program subscribes to
\* advertisements, path updates, new contacts and messages; when the link to
\* the device goes down no handler of the program runs
ConnectionLost ==
    /\ pc \notin {"closed", "done"}
    /\ connected
    /\ connected' = FALSE
    /\ UNCHANGED <<pc, why, loopVars, rxVars, cfgVars, regVars, line, cmds,
                   wait, ops, out, stack, device>>

\* ------------------------------------------------------------------------
\* The end of a wait_for_event: res is the event, or None on timeout
\* ------------------------------------------------------------------------
\* next_cmd l.1402-1413, l.1446-1452, l.1466-1472: what is printed
ReqOutcome(cont, res) ==
    IF cont = "login"
    THEN (IF res = NoneRes THEN "Login failed : Timeout waiting response"
          ELSE IF res.type = "LOGIN_SUCCESS" THEN "Login success" ELSE "Login failed")
    ELSE IF cont = "wait_ack"  \* l.1883-1891
    THEN (IF res = NoneRes THEN "Timeout waiting ack" ELSE "Msg acked")
    ELSE IF cont = "req_status"
    THEN (IF res = NoneRes THEN "Timeout waiting status" ELSE "status")
    ELSE (IF res = NoneRes THEN "Timeout waiting telemetry" ELSE "telemetry")

\* variant: the result is not recorded in the wait, which stays outstanding
CompleteUnrecorded(res) ==
    LET w == wait IN
    IF wait.cont \in {"send", "reply"} THEN
        /\ last_ack' = (res # NoneRes)
        /\ contact' = IF wait.cont = "reply" /\ res = NoneRes THEN wait.ln ELSE contact
        /\ UNCHANGED <<prev_contact, cfgVars, regVars, ops, out, cmds, why, envVars>>
        /\ pc' = "prompt"
        /\ wait' = w
    ELSE
        /\ UNCHANGED <<cfgVars, regVars>>
        /\ Cont(cmds, ops, Append(out, ReqOutcome(wait.cont, res)), w)

Complete(res) ==
    LET w == [wait EXCEPT !.res = res, !.early = FALSE] IN
    IF wait.cont \in {"send", "reply"} THEN
        \* msg_ack l.795-798 and its callers l.662-664, l.765, l.771
        /\ last_ack' = (res # NoneRes)
        /\ contact' = IF wait.cont = "reply" /\ res = NoneRes THEN wait.ln ELSE contact
        /\ UNCHANGED <<prev_contact, cfgVars, regVars, ops, out, cmds, why, envVars>>
        /\ pc' = "prompt"
        /\ wait' = w
    ELSE
        /\ UNCHANGED <<cfgVars, regVars>>
        /\ Cont(cmds, ops, Append(out, ReqOutcome(wait.cont, res)), w)

\* an event that the outstanding wait accepts is published; the
\* acknowledgment of a message is published once, so none comes for a wait
\* that was registered after it
WaitFulfilled ==
    /\ pc = "wait"
    /\ connected
    /\ ~wait.early
    /\ \E ev \in Events : Matches(wait, ev) /\ Complete(ev)
    /\ UNCHANGED <<rxVars, line>>

\* an event that the outstanding wait does not accept is published: the wait
\* goes on; heard keeps the kinds of the events that passed
OtherEvent ==
    /\ pc = "wait"
    /\ connected
    /\ \E ev \in Events :
        /\ ~Matches(wait, ev)
        /\ ev.type \notin wait.heard
        /\ wait' = [wait EXCEPT !.heard = @ \cup {ev.type}]
    /\ UNCHANGED <<loopVars, rxVars, cfgVars, regVars, line, cmds, pc, why,
                   ops, out, envVars>>

\* a node that is neither a contact nor pending advertises itself while
\* contacts are added by hand: the library keeps it as a pending contact
\* (the NEW_CONTACT event of l.226-240)
NewContact ==
    /\ pc \notin {"closed", "done"}
    /\ connected
    /\ \E k \in DOMAIN Adverts :
        /\ k \notin pending
        /\ \A i \in 1..Len(contacts) : contacts[i] # k
        /\ pending' = pending \cup {k}
    /\ UNCHANGED <<pc, why, loopVars, rxVars, cfgVars, contacts, ct, line, cmds,
                   wait, ops, out, envVars>>

\* the deadline passes first
WaitTimeout ==
    /\ pc = "wait"
    /\ Complete(NoneRes)
    /\ UNCHANGED <<rxVars, line>>

\* ------------------------------------------------------------------------
\* Inbound messages: handle_message l.244-251
\* ------------------------------------------------------------------------
InboundMsgOf(M) ==
    /\ pc \notin {"closed", "done"}
    /\ connected
    /\ \E m \in M : last_msg' = m /\ last_node' = LastNodeAfter(m) /\ shown' = Handlers(m)
    /\ UNCHANGED <<pc, why, loopVars, cfgVars, regVars, line, cmds, wait, ops, out, envVars>>

InboundMsg == InboundMsgOf(Msgs)

\* ------------------------------------------------------------------------
\* interactive_loop l.511-515: the messages queued in the device are fetched
\* and dropped until the device answers NO_MORE_MSGS; any other answer, a
\* message or an error, makes the loop ask again. The handler subscribed at
\* l.507 displays a fetched message.
\* ------------------------------------------------------------------------
PurgeStep ==
    /\ pc = "purge"
    /\ connected
    /\ UNCHANGED <<why, loopVars, cfgVars, regVars, line, cmds, wait, out, stack, connected>>
    /\ IF device.failing THEN
           /\ ops' = <<[op |-> "get_msg", json |-> FALSE, res |-> ErrorResult]>>
           /\ pc' = "purge"
           /\ UNCHANGED <<rxVars, device>>
       ELSE IF device.queued > 0 THEN
           \E m \in Msgs :
              /\ ops' = <<[op |-> "get_msg", json |-> FALSE, res |-> m]>>
              /\ pc' = "purge"
              /\ device' = [device EXCEPT !.queued = @ - 1]
              /\ last_msg' = m /\ last_node' = LastNodeAfter(m) /\ shown' = Handlers(m)
       ELSE
           /\ ops' = <<[op |-> "get_msg", json |-> FALSE, res |-> NoMoreMsgs]>>
           /\ pc' = "prompt"
           /\ UNCHANGED <<rxVars, device>>

\* ------------------------------------------------------------------------
\* Specification
\* ------------------------------------------------------------------------
\* main l.2183-2186: the commands of the command line that follow the one
\* that opened the interactive loop
MainRest == {<<>>, <<W_public, W_hi>>}

\* interactive_loop l.503-504, l.541 and the defaults of l.176-178, l.249,
\* l.783-784; `chat` starts at the root, `chat_to <name>` at a contact
Init ==
    /\ pc = "prompt" /\ why = ""
    /\ contact \in {NoneT} \cup {Ct(k) : k \in Keys}
    /\ prev_contact = NoneT
    /\ last_ack = TRUE
    /\ last_node = NoneT
    /\ last_msg = NoMsg
    /\ shown = 0
    /\ pending = {}
    /\ contacts = <<"kB", "kR">>
    /\ ct = InitCt
    /\ color = TRUE /\ classic = FALSE /\ print_name = TRUE /\ json_output = FALSE
    /\ PS = 1 /\ CS = 1
    /\ line = <<>> /\ cmds = <<>> /\ wait = NoWait /\ ops = <<>> /\ out = <<>>
    /\ stack \in {<<[kind |-> "loop", rest |-> r, lines |-> <<>>, contact |-> NoneT,
                     prev_contact |-> NoneT, last_ack |-> TRUE]>> : r \in MainRest}
    /\ connected = TRUE
    /\ device = [queued |-> 0, failing |-> FALSE]

\* interactive_loop l.503-510: the state in which the purge of l.511-515
\* starts, with a device that holds up to MaxQueued messages or that answers
\* get_msg with an error
InitPurge ==
    /\ pc = "purge" /\ why = ""
    /\ contact \in {NoneT} \cup {Ct(k) : k \in Keys}
    /\ prev_contact = NoneT
    /\ last_ack = TRUE
    /\ last_node = NoneT
    /\ last_msg = NoMsg
    /\ shown = 0
    /\ pending = {}
    /\ contacts = <<"kB", "kR">>
    /\ ct = InitCt
    /\ color = TRUE /\ classic = FALSE /\ print_name = TRUE /\ json_output = FALSE
    /\ PS = 1 /\ CS = 1
    /\ line = <<>> /\ cmds = <<>> /\ wait = NoWait /\ ops = <<>> /\ out = <<>>
    /\ stack \in {<<[kind |-> "loop", rest |-> r, lines |-> <<>>, contact |-> NoneT,
                     prev_contact |-> NoneT, last_ack |-> TRUE]>> : r \in MainRest}
    /\ connected = TRUE
    /\ device \in [queued : 0..MaxQueued, failing : BOOLEAN]

Next ==
    \/ Blank(Lines) \/ Raw(Lines) \/ To(Lines) \/ ShowTo(Lines) \/ Quit(Lines)
    \/ Public(Lines) \/ Reply(Lines) \/ PassThrough(Lines) \/ CtCmd(Lines)
    \/ SetTimeout(Lines) \/ GetTimeout(Lines) \/ CtCmdArg(Lines) \/ Send(Lines)
    \/ ChanText(Lines) \/ ChatText(Lines) \/ CmdText(Lines)
    \/ EndOfInput \/ Interrupt \/ ContinueCmds \/ LoopReturns \/ ScriptStep
    \/ IndexErrorCaught
    \/ WaitFulfilled \/ WaitTimeout \/ OtherEvent \/ InboundMsg \/ ConnectionLost
    \/ NewContact

Spec == Init /\ [][Next]_vars

\* ------------------------------------------------------------------------
\* interactive_loop l.543-591: the prompt rendered before a line is read
\* ------------------------------------------------------------------------
\* a piece of the prompt: an ANSI escape sequence or printable text
Ansi(name) == [ansi |-> TRUE, s |-> <<name>>]

Text(t) == [ansi |-> FALSE, s |-> t]

\* escape_ansi l.68-70 removes the escape sequences
RECURSIVE escape_ansi(_)
escape_ansi(p) ==
    IF p = <<>> THEN <<>>
    ELSE IF Head(p).ansi THEN escape_ansi(Tail(p))
    ELSE <<Head(p)>> \o escape_ansi(Tail(p))

\* a prompt style that follows the classic_prompt setting alone
ClassicSettingOnly == classic

\* l.544: without colour the prompt is always the classic one
ClassicNow == classic \/ ~color

\* l.562-575: the colour of the target, red when the last send was not acked
TargetColor ==
    IF ~last_ack THEN
        <<Ansi("BRED")>> \o (IF ClassicNow THEN <<Text(W_bang)>> ELSE <<>>)
    ELSE IF TType(contact) = 4 THEN <<Ansi("BYELLOW")>>
    ELSE IF TType(contact) = 3 THEN <<Ansi("BCYAN")>>
    ELSE IF TType(contact) = 2 THEN <<Ansi("BMAGENTA")>>
    ELSE IF TType(contact) = 0 THEN <<Ansi("BGREEN")>>
    ELSE <<Ansi("BBLUE")>>

\* l.547-559: the device's own name, shown at the root or with print_name
PromptHead ==
    (IF ClassicNow THEN <<>> ELSE <<Ansi("INVERT")>>)
    \o (IF print_name \/ contact = NoneT
        THEN <<Ansi("BGRAY"), Text(SelfName)>>
             \o (IF ClassicNow THEN <<Text(<<" ", ">", " ">>)>> ELSE <<Text(<<"U+1FB68">>)>>)
        ELSE <<>>)

\* l.561-591
Prompt ==
    IF contact = NoneT THEN PromptHead
    ELSE LET full ==
                PromptHead \o TargetColor
                \o (IF ClassicNow THEN <<>> ELSE <<Ansi("INVERT")>>)
                \o (IF print_name /\ ~ClassicNow THEN <<Text(<<"U+1FB6C">>)>> ELSE <<>>)
                \o <<Text(AdvName(contact)), Ansi("NORMAL")>>
                \o (IF ClassicNow THEN <<Text(<<" ", ">", " ">>)>> ELSE <<Text(<<"U+1FB6C">>)>>)
                \o <<Ansi("END")>>
         IN IF ~color THEN escape_ansi(full) ELSE full

\* Navigation sessions: `to` lines with every kind of token, blank lines, quit,
\* and inbound messages that set LastSender
NavSession == {<<>>, W_quit} \cup NavLines

NextNav ==
    \/ Blank(NavSession) \/ To(NavSession) \/ ShowTo(NavSession) \/ Quit(NavSession)
    \/ EndOfInput \/ Interrupt \/ InboundMsg

SpecNav == Init /\ [][NextNav]_vars

\* Sending sessions: a few targets of every kind, the four ways of typing a
\* text, inbound messages, acknowledgments and deadlines
SendSession ==
    {W_toSp \o N_Bob, W_toSp \o N_Rep, W_toSp \o W_public, W_toSp \o W_tilde,
     W_hi, W_bang \o W_hi, W_send \o W_sp \o W_hi, W_dquote \o W_hi}
    \cup {W_toSp \o W_ch \o Str(n) : n \in 1..MaxChan}

NextSend ==
    \/ To(SendSession) \/ Reply(SendSession) \/ PassThrough(SendSession)
    \/ Send(SendSession) \/ ChanText(SendSession) \/ ChatText(SendSession)
    \/ CmdText(SendSession)
    \/ EndOfInput \/ Interrupt \/ WaitFulfilled \/ WaitTimeout \/ InboundMsg

SpecSend == Init /\ [][NextSend]_vars

\* Prompt sessions: messages and replies to contacts under every setting of
\* colour, classic_prompt and print_name
PromptSession ==
    {W_toSp \o N_Bob, W_toSp \o W_tilde, W_hi, W_bang \o W_hi}
    \cup {W_dollar \o W_set \o W_sp \o o \o W_sp \o v :
            o \in {W_color, W_classic_prompt, W_print_name}, v \in {W_on, W_off}}

NextPrompt ==
    \/ To(PromptSession) \/ Reply(PromptSession) \/ PassThrough(PromptSession)
    \/ Raw(PromptSession) \/ ChatText(PromptSession)
    \/ EndOfInput \/ Interrupt \/ WaitFulfilled \/ WaitTimeout \/ InboundMsg

SpecPrompt == Init /\ [][NextPrompt]_vars

\* Timeout sessions: the override of a contact is set and cleared between
\* messages, logins, status and telemetry requests
TimeoutSession ==
    {W_toSp \o N_Bob, W_toSp \o N_Rep, W_hi, W_send \o W_sp \o W_hi,
     W_loginSp \o W_pw, W_req_status, W_req_telemetry, W_getTimeout}
    \cup {W_setTimeoutSp \o Str(v) : v \in 0..MaxOverride}

NextTimeout ==
    \/ To(TimeoutSession) \/ PassThrough(TimeoutSession) \/ CtCmd(TimeoutSession)
    \/ SetTimeout(TimeoutSession) \/ GetTimeout(TimeoutSession)
    \/ CtCmdArg(TimeoutSession) \/ Send(TimeoutSession) \/ ChatText(TimeoutSession)
    \/ CmdText(TimeoutSession)
    \/ EndOfInput \/ Interrupt \/ WaitFulfilled \/ WaitTimeout

SpecTimeout == Init /\ [][NextTimeout]_vars

\* Nested sessions: interactive mode opened again from inside the loop (a
\* `$chat` line, or the name of a contact typed at the root) and closed again
NestSession ==
    {<<>>, W_quit, W_toSp \o N_Bob, W_toSp \o W_tilde, N_Bob,
     W_dollar \o W_chat, W_dollar \o W_chat_to \o W_sp \o N_Rep \o W_sp \o W_chat,
     W_dollar \o W_chat_to, W_dollar \o W_script \o W_sp \o W_pw}

NextNest ==
    \/ Blank(NestSession) \/ Raw(NestSession) \/ To(NestSession)
    \/ Quit(NestSession) \/ PassThrough(NestSession) \/ ChatText(NestSession)
    \/ EndOfInput \/ Interrupt \/ ContinueCmds \/ LoopReturns \/ ScriptStep
    \/ WaitFulfilled \/ WaitTimeout

SpecNest == Init /\ [][NextNest]_vars

\* Sessions in which the link to the device goes down: while a line is
\* awaited and while the acknowledgment of a message is awaited
ConnSession == {<<>>, W_quit, W_toSp \o N_Bob, W_toSp \o W_tilde, W_hi}

NextConn ==
    \/ Blank(ConnSession) \/ To(ConnSession) \/ Quit(ConnSession)
    \/ PassThrough(ConnSession) \/ ChatText(ConnSession)
    \/ EndOfInput \/ Interrupt \/ WaitFulfilled \/ WaitTimeout
    \/ InboundMsg \/ ConnectionLost

SpecConn == Init /\ [][NextConn]_vars

\* Sessions of name-taking commands, each with a name of the registry and
\* with a name that no contact has
NamesSession ==
    {W_dollar \o c \o W_sp \o n \o W_sp \o W_hi :
        c \in {W_msg, W_cmd, W_login}, n \in {N_Rep, W_xyz}}
    \cup {W_dollar \o c \o W_sp \o n :
        c \in {W_logout, W_req_status, W_req_telemetry, W_req_acl}, n \in {N_Rep, W_xyz}}
    \cup {W_dollar \o W_contact_timeout \o W_sp \o n \o W_sp \o Str(1) : n \in {N_Rep, W_xyz}}

NextNames ==
    \/ Raw(NamesSession)
    \/ EndOfInput \/ Interrupt \/ WaitFulfilled \/ WaitTimeout

SpecNames == Init /\ [][NextNames]_vars

\* Sessions of command lists, typed or read from a script, in which a
\* command lacks an argument
ArgSession ==
    {W_dollar \o W_script, W_dollar \o W_script \o W_sp \o W_xyz,
     W_dollar \o W_script \o W_sp \o W_x, W_dollar \o W_script \o W_sp \o W_hi,
     W_dollar \o W_script \o W_sp \o W_x \o W_sp \o W_public \o W_sp \o W_hi,
     W_dollar \o W_msg \o W_sp \o N_Bob,
     W_dollar \o W_public \o W_sp \o W_hi \o W_sp \o W_set \o W_sp \o W_color,
     W_dollar \o W_public \o W_sp \o W_hi}

NextArg ==
    \/ Raw(ArgSession)
    \/ EndOfInput \/ Interrupt \/ ContinueCmds \/ ScriptStep \/ LoopReturns
    \/ IndexErrorCaught

SpecArg == Init /\ [][NextArg]_vars

\* Sessions of the registry: pending contacts come in, are added or flushed,
\* contacts are removed and looked up
RegSession ==
    {W_toSp \o N_Bob, W_toSp \o W_x, W_toSp \o W_public,
     W_dollar \o W_add_pending, W_dollar \o W_flush_pending,
     W_dollar \o W_add_pending \o W_sp \o KeyText("kS"),
     W_dollar \o W_add_pending \o W_sp \o KeyText("kP"),
     W_dollar \o W_add_pending \o W_sp \o KeyText("kQ"),
     W_dollar \o W_add_pending \o W_sp \o KeyText("kB"),
     W_dollar \o W_remove_contact, W_dollar \o W_remove_contact \o W_sp \o W_xyz,
     W_dollar \o W_remove_contact \o W_sp \o N_Bob}

NextReg ==
    \/ Raw(RegSession) \/ To(RegSession)
    \/ EndOfInput \/ Interrupt \/ NewContact

SpecReg == Init /\ [][NextReg]_vars

\* Sessions of messages fetched by a command and of the display mode of
\* messages
RecvSession ==
    {W_quit,
     W_dollar \o W_recv, W_dollar \o W_dot \o W_recv,
     W_dollar \o W_msgs_subscribe, W_dot \o W_ms,
     W_dollar \o W_set \o W_sp \o W_json_msgs \o W_sp \o W_on,
     W_dollar \o W_chat}

NextRecv ==
    \/ Raw(RecvSession) \/ Quit(RecvSession) \/ PassThrough(RecvSession)
    \/ EndOfInput \/ Interrupt \/ ContinueCmds \/ LoopReturns
    \/ InboundMsg

SpecRecv == Init /\ [][NextRecv]_vars

\* Sessions of acknowledgments awaited by a command
AckSession ==
    {W_toSp \o N_Bob, W_hi, W_at \o W_hi,
     W_dollar \o W_wait_ack,
     W_dollar \o W_msg \o W_sp \o N_Bob \o W_sp \o W_hi \o W_sp \o W_wait_ack}

NextAck ==
    \/ Raw(AckSession) \/ To(AckSession) \/ ChatText(AckSession)
    \/ EndOfInput \/ Interrupt \/ ContinueCmds
    \/ WaitFulfilled \/ WaitTimeout

SpecAck == Init /\ [][NextAck]_vars

\* Sessions with two contacts of one display name: a node that advertises
\* the name of a contact is added, writes, and becomes the target by `to !`
DupMsgs == {[type |-> "PRIV", pubkey_prefix |-> "kQ", channel_idx |-> 0]}

DupSession ==
    {W_toSp \o W_bang, W_req_status, W_logout, W_loginSp \o W_pw,
     W_dollar \o W_add_pending \o W_sp \o KeyText("kQ")}

NextDup ==
    \/ Raw(DupSession) \/ To(DupSession) \/ CtCmd(DupSession) \/ CtCmdArg(DupSession)
    \/ EndOfInput \/ Interrupt \/ WaitFulfilled \/ WaitTimeout
    \/ NewContact \/ InboundMsgOf(DupMsgs)

SpecDup == Init /\ [][NextDup]_vars

\* make_completion_dict(contacts, pending, to) for a target `to` that is not
\* the root: the command keywords offered at the prompt (the keys of
\* completion_list). l.293-297, l.387-390 and l.489-492 for every target,
\* l.392-405 for a contact, l.407-415 for a chat peer, l.417-471 for a
\* repeater, room or sensor, l.473-487 for a sensor
make_completion_dict(to) ==
    {W_to, W_public, W_chan, W_send, W_script, W_quit}
    \cup (IF TType(to) > 0
          THEN {W_req_telemetry,
             <<"c", "o", "n", "t", "a", "c", "t", "_", "i", "n", "f", "o">>,
             <<"p", "a", "t", "h">>,
             <<"e", "x", "p", "o", "r", "t", "_", "c", "o", "n", "t", "a", "c", "t">>,
             <<"s", "h", "a", "r", "e", "_", "c", "o", "n", "t", "a", "c", "t">>,
             <<"u", "p", "l", "o", "a", "d", "_", "c", "o", "n", "t", "a", "c", "t">>,
             <<"r", "e", "s", "e", "t", "_", "p", "a", "t", "h">>,
             <<"c", "h", "a", "n", "g", "e", "_", "p", "a", "t", "h">>,
             <<"c", "h", "a", "n", "g", "e", "_", "f", "l", "a", "g", "s">>,
             <<"r", "e", "q", "_", "b", "i", "n", "a", "r", "y">>}
          ELSE {})
    \cup (IF TType(to) = 1 THEN {W_get, W_set} ELSE {})
    \cup (IF TType(to) > 1
          THEN {W_login, W_logout, W_req_status, W_cmd, W_clock, W_get, W_set,
             <<"v", "e", "r">>,
             <<"a", "d", "v", "e", "r", "t">>,
             <<"t", "i", "m", "e">>,
             <<"r", "e", "b", "o", "o", "t">>,
             <<"s", "t", "a", "r", "t", " ", "o", "t", "a">>,
             <<"p", "a", "s", "s", "w", "o", "r", "d">>,
             <<"n", "e", "i", "g", "h", "b", "o", "r", "s">>,
             <<"e", "r", "a", "s", "e">>,
             <<"l", "o", "g">>}
          ELSE {})
    \cup (IF TType(to) = 4
          THEN {W_req_acl,
             <<"r", "e", "q", "_", "m", "m", "a">>,
             <<"s", "e", "t", "p", "e", "r", "m">>}
          ELSE {})

\* Sessions of the keywords offered at a chat peer and at a channel, each
\* entered with arguments, and of a text that begins with the letters of one
CompSession ==
    {W_toSp \o N_Bob, W_toSp \o W_public, W_quit,
     W_publicSp \o W_hi, W_send \o W_sp \o W_hi,
     W_script \o W_sp \o W_x, W_chan \o W_sp \o Str(0) \o W_sp \o W_hi,
     W_req_telemetry, W_hi, W_send \o <<"i", "n", "g">>}

NextComp ==
    \/ To(CompSession) \/ Quit(CompSession) \/ Public(CompSession)
    \/ Send(CompSession) \/ CtCmd(CompSession)
    \/ ChanText(CompSession) \/ ChatText(CompSession)
    \/ EndOfInput \/ Interrupt \/ WaitFulfilled \/ WaitTimeout

SpecComp == Init /\ [][NextComp]_vars

\* The start of the interactive mode: the purge, then a few lines. The loop
\* goes on as long as it is not suspended for ever: each get_msg is answered.
PurgeSession == {W_toSp \o N_Bob, W_toSp \o W_bang, W_quit}

NextPurge ==
    \/ PurgeStep
    \/ To(PurgeSession) \/ Quit(PurgeSession)
    \/ EndOfInput \/ Interrupt

SpecPurge == InitPurge /\ [][NextPurge]_vars /\ WF_vars(PurgeStep)

\* Sessions of logins
LoginSession ==
    {W_toSp \o N_Rep, W_login \o W_sp \o W_pw,
     W_dollar \o W_login \o W_sp \o N_Rep \o W_sp \o W_pw,
     W_dollar \o W_login \o W_sp \o N_Rep,
     W_dollar \o W_login \o W_sp \o W_xyz \o W_sp \o W_pw}

NextLogin ==
    \/ Raw(LoginSession) \/ To(LoginSession) \/ CtCmdArg(LoginSession)
    \/ EndOfInput \/ Interrupt
    \/ WaitFulfilled \/ WaitTimeout \/ OtherEvent

SpecLogin == Init /\ [][NextLogin]_vars

\* Sessions of commands that the device may answer with an error
ErrSession ==
    {W_hi, W_toSp \o N_Bob,
     W_dollar \o W_clock, W_dollar \o W_clock \o W_sp \o W_sync,
     W_dollar \o W_msg \o W_sp \o N_Bob \o W_sp \o W_hi,
     W_dollar \o W_public \o W_sp \o W_hi,
     W_dollar \o W_get \o W_sp \o W_x,
     W_dollar \o W_set \o W_sp \o W_x \o W_sp \o W_on,
     W_dollar \o W_login \o W_sp \o N_Rep \o W_sp \o W_pw,
     W_dollar \o W_logout \o W_sp \o N_Rep,
     W_dollar \o W_req_status \o W_sp \o N_Rep}

NextErr ==
    \/ Raw(ErrSession) \/ To(ErrSession) \/ PassThrough(ErrSession)
    \/ ChatText(ErrSession) \/ CmdText(ErrSession)
    \/ EndOfInput \/ Interrupt \/ WaitFulfilled \/ WaitTimeout

SpecErr == Init /\ [][NextErr]_vars

\* ------------------------------------------------------------------------
\* Claims
\* ------------------------------------------------------------------------
\* the ways the session loop is meant to end
OrderlyEnds == {"quit", "eof", "interrupt"}

\* C1: whatever line is entered, the loop reports and returns to the prompt; it
\* ends only on quit, end-of-input or interrupt, never because of a malformed
\* line. (Stated as: a closed loop was closed by one of the three.)
C1_LoopEndsOnlyOnQuitEofInterrupt ==
    pc = "closed" => why \in OrderlyEnds

\* the text after "to ch" is not a non-negative integer
BadChanToken(l) == StartsWith(l, W_toSp \o W_ch) /\ ~IsDigits(From(l, 5))

\* C2: `to ch<N>` with N empty, non-numeric or negative prints a diagnostic and
\* leaves the current target and the previous-target slot unchanged (and the
\* session at the prompt).
C2_MalformedChannelIsNotFound ==
    [][(To({line'}) /\ BadChanToken(line'))
        => (pc' = "prompt" /\ out' # <<>> /\ contact' = contact
            /\ prev_contact' = prev_contact)]_vars

\* C3: `to !` before any message was received gives the "no message received
\* yet" signal and leaves the current target and the previous-target slot
\* unchanged, whatever the current target is.
C3_ToBangWithoutSenderIsNotFound ==
    [][(To({line'}) /\ line' = W_toSp \o W_bang /\ last_node = NoneT)
        => (out' = <<"No received msg yet !">> /\ contact' = contact
            /\ prev_contact' = prev_contact)]_vars

\* C10: `to ..` makes the previous target current, and a navigation that
\* changes the target stores the target it left in the slot; so after
\* T0 -> T1 -> T2, `to ..` gives T1 with T2 in the slot, and a further `to ..`
\* gives T2, not T0.
C10_SingleLevelUndo ==
    [][To({line'}) =>
        /\ (contact' # contact => prev_contact' = contact)
        /\ (contact' = contact => prev_contact' = prev_contact)
        /\ (line' = W_toSp \o W_dotdot => contact' = prev_contact)]_vars

\* reached by T0 -> T1 = Bob -> T2 = a channel -> `to ..`: Bob is current again
\* and the channel is in the slot
C10_Witness ==
    /\ pc = "prompt"
    /\ line = W_toSp \o W_dotdot
    /\ contact = Ct("kB")
    /\ prev_contact.kind = "chan"

\* C4: with LastSender unset a line beginning with `!` reports "no message
\* received yet", issues no device operation and leaves the current target
\* unchanged, whatever the current target is.
C4_ReplyWithoutSenderSendsNothing ==
    [][(Reply({line'}) /\ last_node = NoneT)
        => (pc' = "prompt" /\ out' = <<"No received msg yet !">> /\ ops' = <<>>
            /\ wait' = NoWait /\ contact' = contact)]_vars

\* `!hi` was refused while a channel is the current target
C4_Witness ==
    /\ pc = "prompt"
    /\ line = W_bang \o W_hi
    /\ out = <<"No received msg yet !">>
    /\ ops = <<>>
    /\ contact.kind = "chan"

\* the one operation a reply to LastSender ln with the typed line l is meant
\* to issue: the text without the `!`, to that contact or that channel index
ReplyOpTo(ln, l, op) ==
    /\ op.text = From(l, 1)
    /\ IF ln.kind = "contact"
       THEN op.op = "send_msg" /\ op.dst = ln
       ELSE op.op = "send_chan_msg" /\ op.chan = ln.chan_nb

\* C5: with LastSender set, `!text` sends text (without the `!`) to LastSender
\* itself, contact or channel index, whatever the current target is.
C5_ReplyGoesToLastSender ==
    [][(Reply({line'}) /\ last_node # NoneT)
        => (Len(ops') = 1 /\ ReplyOpTo(last_node, line', ops'[1]))]_vars

\* the lines that send the text hi to the current target
SendingLines == {W_hi, W_send \o W_sp \o W_hi, W_dquote \o W_hi}

\* C6: while a channel is the current target no sending line starts an
\* acknowledgment wait; the text goes out as one channel message to the
\* current channel index.
C6_ChannelSendIsFireAndForget ==
    (contact.kind = "chan" /\ line \in SendingLines)
        => /\ wait = NoWait
           /\ Len(ops) = 1
           /\ ops[1].op = "send_chan_msg"
           /\ ops[1].chan = contact.chan_nb
           /\ ops[1].text = W_hi

\* C7: the acknowledgment wait of a message send ends with an event only when
\* that event is an ACK carrying the expected_ack of that send; only then is
\* the message marked acknowledged.
C7_AckWaitMatchesExpectedCode ==
    (wait.kind = "ACK" /\ wait.res # Pending /\ wait.dst.kind = "contact")
        => /\ wait.res # NoneRes
              => (wait.res.type = "ACK"
                  /\ wait.res.code = Hex(ops[Len(ops)].res.expected_ack))
           /\ last_ack = (wait.res # NoneRes)

\* a message to Bob was acknowledged with the second code while the device
\* publishes acknowledgments of both codes
C7_Witness ==
    /\ pc = "prompt"
    /\ wait.kind = "ACK"
    /\ wait.dst = Ct("kB")
    /\ wait.res = [type |-> "ACK", code |-> Hex(2)]
    /\ ops[1].res.expected_ack = 2
    /\ last_ack

\* the unacknowledged marker: the red colour, or the "!" of the classic prompt
MarkerShown(p) ==
    \E i \in 1..Len(p) : p[i] = Ansi("BRED") \/ p[i] = Text(W_bang)

\* C8: when the acknowledgment wait of a message to a contact times out the
\* loop goes on (it is at the prompt unless the user then ended it) and the
\* prompt shows the unacknowledged marker, in every prompt mode.
C8_TimeoutShowsMarker ==
    (wait.kind = "ACK" /\ wait.res = NoneRes /\ wait.dst.kind = "contact")
        => /\ pc \in {"prompt", "closed"}
           /\ pc = "closed" => why \in {"eof", "interrupt"}
           /\ pc = "prompt" => (contact # NoneT /\ MarkerShown(Prompt))

\* a send to Bob timed out with colour off and classic_prompt off
C8_Witness ==
    /\ pc = "prompt"
    /\ wait.kind = "ACK" /\ wait.res = NoneRes /\ wait.dst = Ct("kB")
    /\ ~color /\ ~classic
    /\ MarkerShown(Prompt)

\* the deadline (ms) the code derives from a device-suggested timeout (ms):
\* 1.2 times it for an acknowledgment, it divided by 0.8 for the other waits
FromSuggested(kind, suggested) ==
    IF kind = "ACK" THEN (suggested * 12) \div 10 ELSE (suggested * 10) \div 8

\* C9: for a message, a login, a status request and a telemetry request to a
\* contact the deadline of the wait is the contact's override (seconds) when it
\* is set and non-zero, whatever the device suggested; with the override absent
\* or 0 it is derived from the suggested timeout of that request's send result.
C9_DeadlineIsOverrideOrSuggested ==
    (wait # NoWait /\ wait.dst.kind = "contact")
        => LET c == wait.dst
               r == ops[Len(ops)].res
           IN /\ r.type = "MSG_SENT"
              /\ (ct[c.key].tset /\ ct[c.key].timeout # 0)
                    => wait.timeout = ct[c.key].timeout * 1000
              /\ (~ct[c.key].tset \/ ct[c.key].timeout = 0)
                    => wait.timeout = FromSuggested(wait.kind, r.suggested_timeout)

\* a login to Rep waits one second, the override, although the device
\* suggested eight
C9_Witness ==
    /\ pc = "wait"
    /\ wait.kind = "LOGIN_SUCCESS"
    /\ wait.dst = Ct("kR")
    /\ ct["kR"].tset /\ ct["kR"].timeout = 1
    /\ ops[Len(ops)].res.suggested_timeout = 8000
    /\ wait.timeout = 1000

\* the override of Bob was set back to 0 and the status request waits the
\* device-suggested five seconds
C9_WitnessRestored ==
    /\ pc = "wait"
    /\ wait.kind = "STATUS_RESPONSE"
    /\ wait.dst = Ct("kB")
    /\ ct["kB"].tset /\ ct["kB"].timeout = 0
    /\ wait.timeout = 5000

\* C11: whenever a line changes the current target from A to B, the
\* previous-target slot holds A immediately afterwards, whether a `to`
\* navigation or a `!` reply caused the change.
C11_SlotFollowsEveryTargetChange ==
    [][contact' # contact => prev_contact' = contact]_vars

\* two targets are the same destination: the same contact, or the same channel
\* index under whatever name
SameTarget(a, b) ==
    /\ a.kind = b.kind
    /\ a.kind = "contact" => a.key = b.key
    /\ a.kind = "chan" => a.chan_nb = b.chan_nb

\* C12: a `to <token>` that resolves to the target that is already current (an
\* empty token, the current contact's name, the current channel's index under
\* either spelling) changes neither the current target, nor the
\* previous-target slot, nor the acknowledgment marker.
C12_NoOpNavigationChangesNothing ==
    [][(/\ To({line'})
        /\ ToDest(line').ok
        /\ Resolve(ToDest(line').dest).exc = ""
        /\ SameTarget(Resolve(ToDest(line').dest).nc, contact))
        => UNCHANGED loopVars]_vars

\* C13: once the session loop has closed on quit, end-of-input or interrupt,
\* no further command is dispatched and no further prompt is shown: the
\* program can only end, also when the loop was opened by a chained command
\* list or from inside another interactive loop.
C13_ClosedIsTerminal ==
    [][(pc = "closed" /\ why \in OrderlyEnds) => pc' \in {"closed", "done"}]_vars

\* C14: when the connection is lost while the loop awaits input or awaits a
\* reply, the loop closes: its next step is the transition to Closed, and no
\* further input line is read.
C14_ConnectionLossCloses ==
    [][(~connected /\ pc \in {"prompt", "wait"}) => pc' = "closed"]_vars

\* the commands of the dispatcher that take the name of a contact first
NameCmds ==
    {W_msg, W_cmd, W_login, W_logout, W_contact_timeout, W_req_status,
     W_req_telemetry, W_req_acl}

\* the line l runs a name-taking command with a name that is not in the registry
UnknownNameLine(l) ==
    LET a == ShlexSplit(From(l, 1)) IN
    /\ a.ok /\ Len(a.toks) >= 2
    /\ a.toks[1] \in NameCmds
    /\ get_contact_by_name(a.toks[2]) = NoneT

\* C15: a name-taking command given a name that is not in the contact registry
\* is reported, issues no device operation, and the session goes on (back at
\* the prompt).
C15_UnknownNameIsReported ==
    [][(Raw({line'}) /\ UnknownNameLine(line'))
        => (ops' = <<>> /\ out' # <<>> /\ pc' = "prompt")]_vars

\* C16: whenever the device answers a command with an error payload, the
\* error is reported and the session continues: the step that receives the
\* error prints something and does not end the loop.
C16_DeviceErrorIsReported ==
    [][(ops' # ops /\ ops' # <<>> /\ ops'[Len(ops')].res = ErrorResult)
        => (out' # <<>> /\ pc' # "closed")]_vars

\* C17: a command that lacks an argument is reported as a parameter error; the
\* rest of its command list is dropped and nothing else is: the script that
\* holds the list keeps its later lines and goes on, and the interactive loop
\* goes back to its prompt.
ParamErrorReported ==
    /\ pc \in {"prompt", "cmds"}
    /\ out' # out /\ out' # <<>> /\ out'[Len(out')] = "Error in parameters"

C18_RejectedLoginIsNotATimeout ==
    [][(/\ pc = "wait" /\ wait.cont = "login"
        /\ wait'.res # Pending
        /\ "LOGIN_FAILED" \in wait.heard)
        => out'[Len(out')] # "Login failed : Timeout waiting response"]_vars

\* C19: when the wait for the acknowledgment of a message to a contact times
\* out, the caller of the send gets a result other than the one of a device
\* error on the send, and the timeout is reported to the user.
AckTimesOut ==
    pc = "wait" /\ wait.cont \in {"send", "reply"} /\ wait'.res = NoneRes

C19_AckTimeoutIsDistinct ==
    [][AckTimesOut => (last_ack' # SendFailed /\ out' # out)]_vars

\* C20: every inbound message makes LastSender its sender (direct message) or
\* its channel (channel message), whether or not the sender is a known
\* contact and whatever the display mode of messages.
C20_EveryMessageSetsLastSender ==
    [][last_msg' # last_msg =>
        IF last_msg'.type = "PRIV"
        THEN last_node'.kind = "contact" /\ last_node'.key = last_msg'.pubkey_prefix
        ELSE last_node'.kind = "chan" /\ last_node'.chan_nb = last_msg'.channel_idx]_vars

\* the device has accepted the add_pending of the pending contact k
AddAccepted(k) ==
    /\ k \in pending /\ k \notin pending'
    /\ ops' # <<>>
    /\ ops'[Len(ops')] = [op |-> "add_contact", key |-> k, res |-> OkResult]

\* C21: after add_pending has succeeded for a pending contact, its key is no
\* longer pending, the registry holds it under that key with the display name
\* of the pending record, and the lookup by that display name finds it.
C21_PromotionIsAMove ==
    [][\A k \in DOMAIN Adverts : AddAccepted(k) =>
        /\ \E i \in 1..Len(contacts') : contacts'[i] = k
        /\ ct'[k].adv_name = Adverts[k].adv_name
        /\ get_contact_by_name(Adverts[k].adv_name)' = Ct(k)]_vars

\* C21 as amended: the lookup by the display name finds the added contact
\* when no contact of the registry had that display name before, and else
\* still finds the contact it found before.
C21_PromotionIsAMoveFirstMatch ==
    [][\A k \in DOMAIN Adverts : AddAccepted(k) =>
        /\ \E i \in 1..Len(contacts') : contacts'[i] = k
        /\ ct'[k].adv_name = Adverts[k].adv_name
        /\ get_contact_by_name(Adverts[k].adv_name)' =
              IF get_contact_by_name(Adverts[k].adv_name) = NoneT THEN Ct(k)
              ELSE get_contact_by_name(Adverts[k].adv_name)]_vars

\* both nodes were added: one is found by its name, the other hidden by Bob
C21_Witness ==
    /\ pending = {}
    /\ \E i \in 1..Len(contacts) : contacts[i] = "kP"
    /\ \E i \in 1..Len(contacts) : contacts[i] = "kQ"
    /\ get_contact_by_name(W_x) = Ct("kP")
    /\ get_contact_by_name(N_Bob) = Ct("kB")

\* C22: a contact leaves the registry only by a remove_contact that the device
\* accepted; an entry leaves the pending contacts only by becoming a contact
\* through add_pending or by flush_pending. A failed operation removes nothing.
C22_MembershipIsMonotonic ==
    [][/\ \A i \in 1..Len(contacts) :
           (\A j \in 1..Len(contacts') : contacts'[j] # contacts[i])
           => /\ ops' # <<>>
              /\ ops'[Len(ops')] =
                   [op |-> "remove_contact", key |-> contacts[i], res |-> OkResult]
       /\ \A k \in pending \ pending' :
           \/ AddAccepted(k)
           \/ line' = W_dollar \o W_flush_pending]_vars

\* C23: an inbound message is displayed at most once, also when a receive
\* command fetches it while the display of messages is subscribed.
C23_MessageShownOnce == shown <= 1

\* a wait is outstanding: registered and not yet ended by an event or by its
\* deadline
Outstanding(w) == w.kind # "none" /\ w.res = Pending

\* C24: a reply wait is registered only when no other reply wait is
\* outstanding, also in chained commands, scripts and nested loops.
C24_OneWaitAtATime ==
    [][(Outstanding(wait') /\ [wait' EXCEPT !.heard = {}] # [wait EXCEPT !.heard = {}])
        => ~Outstanding(wait)]_vars

\* the second wait of a script is outstanding inside a nested loop
C24_Witness ==
    /\ Outstanding(wait) /\ wait.cont = "wait_ack"
    /\ Len(stack) = 3 /\ stack[3].kind = "script"

\* C25: a wait_ack command reports "Msg acked" only for an ACK that carries
\* the expected_ack code of the message that the command list sent before it;
\* an ACK of another message, or of a message whose acknowledgment wait has
\* already timed out, fulfils no wait.
C25_WaitAckMatchesItsMessage ==
    [][(pc = "wait" /\ wait.cont = "wait_ack" /\ wait'.res \notin {Pending, NoneRes})
        => \E i \in DOMAIN ops :
             /\ ops[i].op = "send_msg"
             /\ ops[i].res \in SentResults
             /\ wait'.res.code = Hex(ops[i].res.expected_ack)]_vars

\* the first word of the command that this step dispatches: of the line just
\* read (l.610-612, l.667-669) or of the rest of the command list (l.1927-1928);
\* the empty word when the step dispatches none
Dispatched ==
    IF pc = "cmds" THEN cmds[1]
    ELSE IF pc = "prompt" /\ Raw({line'}) /\ ShlexSplit(From(line', 1)).ok
              /\ ShlexSplit(From(line', 1)).toks # <<>>
    THEN ShlexSplit(From(line', 1)).toks[1]
    ELSE IF pc = "prompt" /\ PassThrough({line'}) /\ ShlexSplit(line').ok
              /\ ShlexSplit(line').toks # <<>>
    THEN ShlexSplit(line').toks[1]
    ELSE <<>>

\* C26: a command with a leading "." leaves the display mode of inbound
\* messages as it was (unless the command is set, which sets it).
C26_DotIsForOneCommand ==
    [][(StartsWith(Dispatched, W_dot) /\ CmdName(Dispatched) # W_set)
        => json_output' = json_output]_vars

\* C27: the display settings change only by a set command.
C27_SettingsChangeOnlyBySet ==
    [][cfgVars' # cfgVars => CmdName(Dispatched) = W_set]_vars

\* the target that a special token of `to` stands for
SpecialTarget(dest) ==
    IF dest = W_public THEN Chan(W_public, 0)
    ELSE IF dest = W_dotdot THEN prev_contact
    ELSE IF dest = W_bang THEN last_node
    ELSE IF dest \in {W_tilde, W_slash} THEN NoneT
    ELSE Chan(W_chan \o Str(NumVal(From(dest, 2))), NumVal(From(dest, 2)))

IsSpecial(dest) ==
    \/ dest \in {W_public, W_dotdot, W_tilde, W_slash}
    \/ dest = W_bang /\ last_node # NoneT
    \/ StartsWith(dest, W_ch) /\ NumOk(From(dest, 2))

\* C28: `to` with a special token goes to the special target, whatever the
\* display names of the contacts are.
C28_SpecialTokensAreSpecial ==
    [][(To({line'}) /\ ToDest(line').ok /\ IsSpecial(ToDest(line').dest))
        => contact' = SpecialTarget(ToDest(line').dest)]_vars

\* C29: a `to` line changes neither the registry, nor the pending list, nor
\* the last sender.
C29_ResolutionHasNoSideEffect ==
    [][To({line'}) => UNCHANGED <<contacts, ct, pending, last_node>>]_vars

C29_Witness ==
    /\ pc = "prompt" /\ StartsWith(line, W_toSp)
    /\ out = <<"Contact not found in contacts">>
    /\ pending # {} /\ Len(contacts) = 3

\* C30: a line that begins with "@" is sent neither as the text of a message
\* nor as a remote command to the current target.
C30_AtLineIsNotText ==
    [][(StartsWith(line', W_at)
        /\ (ChatText({line'}) \/ ChanText({line'}) \/ CmdText({line'})))
        => \A i \in DOMAIN ops' :
             ops'[i].op \notin {"send_msg", "send_chan_msg", "send_cmd"}]_vars

\* the device operations of a sequence that are addressed to a contact
Addressed(o) == {i \in DOMAIN o : "dst" \in DOMAIN o[i]}

\* C31: a per-target command typed while a contact is the current target
\* addresses that contact, whatever the display names of the others are.
C31_PerTargetCommandHitsTheTarget ==
    [][(contact.kind = "contact" /\ (CtCmd({line'}) \/ CtCmdArg({line'})))
        => \A i \in Addressed(ops') : ops'[i].dst = contact]_vars

\* C32: at a chat peer or a channel, a line whose first word is a keyword
\* that the completion offers there is not sent as message text.
C32_OfferedKeywordIsACommand ==
    [][(contact # NoneT /\ TType(contact) \in {0, 1}
        /\ line' # <<>> /\ SplitSp(line')[1] \in make_completion_dict(contact))
        => ~(ChatText({line'}) \/ ChanText({line'}))]_vars

InRegistry(k) == \E i \in 1..Len(contacts) : contacts[i] = k

\* C33: after an add_pending, whatever the device answered, every identity
\* that was pending is still pending or is a contact.
C33_AddPendingLosesNothing ==
    [][CmdName(Dispatched) = W_add_pending
        => \A k \in pending : k \in pending' \/ InRegistry(k)']_vars

\* C34: a contact that is the current target is a member of the registry.
C34_TargetIsRegistered ==
    (contact # NoneT /\ contact.kind = "contact") => InRegistry(contact.key)

\* the acknowledgment wait of a `!` reply ends, the reply went to a recipient
\* other than the current target, and the target stays
ReplyElsewhereEnds ==
    /\ pc = "wait" /\ wait.cont = "reply" /\ pc' = "prompt"
    /\ contact # NoneT /\ wait.ln # contact /\ contact' = contact

\* C35: a `!` reply sent to a recipient other than the current target neither
\* sets nor clears the unacknowledged marker of the prompt.
C35_ReplyElsewhereKeepsMarker ==
    [][ReplyElsewhereEnds => (MarkerShown(Prompt)' = MarkerShown(Prompt))]_vars

\* C36: the start-up purge ends, whatever the device answers to get_msg.
C36_PurgeTerminates == <>(pc # "purge")

\* C37: an ACK with the expected code that is published after the result of
\* the send and before the deadline makes the send acknowledged, also when it
\* is published before the wait is registered.
C37_AckIsNeverMissed ==
    [][(pc = "wait" /\ wait.cont \in {"send", "reply"} /\ wait.early
        /\ wait'.res # Pending)
        => last_ack']_vars

\* C38: handle_message is subscribed at most once to direct messages and at
\* most once to channel messages, and an inbound message is displayed by it
\* at most once.
C38_OneHandlerPerKind ==
    [][/\ PS' <= 1 /\ CS' <= 1
       /\ (last_msg' # NoMsg /\ InboundMsgOf({last_msg'})) => shown' <= 1]_vars

\* a message is displayed in a nested interactive loop in which
\* msgs_subscribe was just run again
C38_Witness ==
    /\ Len(stack) = 2 /\ pc = "prompt"
    /\ CmdName(line) = W_ms
    /\ last_msg # NoMsg /\ shown = 1
    /\ PS = 1 /\ CS = 1

\* C39: at a chat peer, a line that is sent as a message and is neither the
\* `send ` command nor a quoted text goes to that contact exactly as typed.
C39_TextIsSentAsTyped ==
    [][(contact # NoneT /\ TType(contact) = 1
        /\ (Send({line'}) \/ ChatText({line'}))
        /\ ~StartsWith(line', W_send \o W_sp) /\ ~StartsWith(line', W_dquote))
        => (ops' # <<>> /\ ops'[1].op = "send_msg" /\ ops'[1].dst = contact
            /\ ops'[1].text = line')]_vars

====
